---- MODULE Spec2Model ----
(***************************************************************************)
(* Metadata embedding engine of visionmeta-ai (services/fileHelpers).      *)
(*                                                                         *)
(* A JavaScript string is modelled as the sequence of its UTF-16 code      *)
(* units, a Uint8Array / Blob as the sequence of its bytes.  Indices and   *)
(* offsets keep the 0-based values of the source; At and Slice translate   *)
(* them to the 1-based sequences of TLA+.                                  *)
(***************************************************************************)
EXTENDS Integers, Sequences, FiniteSets, TLC

(***************************************************************************)
(* Bounds of the model (sizes of the generated inputs).                    *)
(***************************************************************************)
\* longest generated title / description, in code units
MaxTextLen == 2
\* longest generated keyword list
MaxKeywords == 2
\* length of the one very long title (a run of '&'), chosen so that its XMP
\* packet no longer fits the 16-bit length field of a JPEG segment
LongTitleLen == 6500

(***************************************************************************)
(* Sequences with the index conventions of JavaScript.                     *)
(***************************************************************************)
\* s[i] / s.charCodeAt(i), 0-based
At(s, i) == s[i + 1]

\* s.slice(a, b) for 0 <= a, with b clamped to the length
Slice(s, a, b) ==
    LET e == IF b > Len(s) THEN Len(s) ELSE b
    IN  IF a >= e THEN << >> ELSE SubSeq(s, a + 1, e)

\* s.slice(a)
SliceFrom(s, a) == Slice(s, a, Len(s))

\* the pattern p occurs in s at 0-based offset i
MatchAt(s, p, i) ==
    /\ i >= 0
    /\ i + Len(p) <= Len(s)
    /\ \A j \in 1..Len(p) : s[i + j] = p[j]

\* String.prototype.indexOf(p, from): the first offset >= from, or -1
IndexOf(s, p, from) ==
    IF \E i \in from..(Len(s) - Len(p)) : MatchAt(s, p, i)
    THEN CHOOSE i \in from..(Len(s) - Len(p)) :
            /\ MatchAt(s, p, i)
            /\ \A j \in from..(i - 1) : ~MatchAt(s, p, j)
    ELSE -1

\* String.prototype.includes
Includes(s, p) == IndexOf(s, p, 0) # -1

\* String.prototype.startsWith / endsWith
StartsWith(s, p) == MatchAt(s, p, 0)
EndsWith(s, p) == MatchAt(s, p, Len(s) - Len(p))

\* String.prototype.toLowerCase on the code units the model uses (A-Z)
LowerUnit(c) == IF c >= 65 /\ c <= 90 THEN c + 32 ELSE c
toLowerCase(s) == [i \in 1..Len(s) |-> LowerUnit(s[i])]

\* Array.prototype.join / concatenation of a list of sequences
RECURSIVE Join(_, _)
Join(list, sep) ==
    IF Len(list) = 0 THEN << >>
    ELSE IF Len(list) = 1 THEN list[1]
    ELSE LET h == Len(list) \div 2
         IN  Join(SubSeq(list, 1, h), sep) \o sep \o Join(SubSeq(list, h + 1, Len(list)), sep)

\* n copies of the unit c
Repeat(c, n) == [i \in 1..n |-> c]

(***************************************************************************)
(* TextEncoder.encode: UTF-8 of a string of BMP code units.  A surrogate   *)
(* that is not part of a pair encodes as U+FFFD (EF BF BD); the inputs of  *)
(* the model hold no surrogate pairs.                                      *)
(***************************************************************************)
Utf8Unit(c) ==
    IF c < 128 THEN << c >>
    ELSE IF c < 2048 THEN << 192 + (c \div 64), 128 + (c % 64) >>
    ELSE IF c >= 55296 /\ c <= 57343 THEN << 239, 191, 189 >>
    ELSE << 224 + (c \div 4096), 128 + ((c \div 64) % 64), 128 + (c % 64) >>

RECURSIVE TextEncode(_)
TextEncode(s) ==
    IF Len(s) = 0 THEN << >>
    ELSE IF Len(s) = 1 THEN Utf8Unit(s[1])
    ELSE LET h == Len(s) \div 2
         IN  TextEncode(SubSeq(s, 1, h)) \o TextEncode(SubSeq(s, h + 1, Len(s)))

(***************************************************************************)
(* generateXmpPacket (part_002:689-721).  The template literal, cut at its *)
(* five substitutions.  65279 is the byte order mark U+FEFF.               *)
(***************************************************************************)
\* "<?xpacket begin="\ufeff" id="W5M0MpCehiHzreSzNTczkc9d"?>\n
\*  <x:xmpmeta xmlns:x="adobe:ns:meta/" x:xmptk="VisionMeta AI Tagger">\n
\*    <rdf:RDF xmlns:rdf="http://www.w3.org/1999/02/22-rdf-syntax-ns#">\n
\*      <rdf:Description rdf:about=""\n
\*          xmlns:dc="http://purl.org/dc/elements/1.1/"\n
\*          xmlns:photoshop="http://ns.adobe.com/photoshop/1.0/"\n
\*          xmlns:Iptc4xmpCore="http://iptc.org/std/Iptc4xmpCore/1.0/xmlns/">\n
\*        <dc:format>"
XmpHead ==
    << 60, 63, 120, 112, 97, 99, 107, 101, 116, 32, 98, 101, 103, 105, 110, 61, 34, 65279, 34, 32,
       105, 100, 61, 34, 87, 53, 77, 48, 77, 112, 67, 101, 104, 105, 72, 122, 114, 101, 83, 122,
       78, 84, 99, 122, 107, 99, 57, 100, 34, 63, 62, 10, 60, 120, 58, 120, 109, 112, 109, 101,
       116, 97, 32, 120, 109, 108, 110, 115, 58, 120, 61, 34, 97, 100, 111, 98, 101, 58, 110, 115,
       58, 109, 101, 116, 97, 47, 34, 32, 120, 58, 120, 109, 112, 116, 107, 61, 34, 86, 105, 115,
       105, 111, 110, 77, 101, 116, 97, 32, 65, 73, 32, 84, 97, 103, 103, 101, 114, 34, 62, 10, 32,
       32, 60, 114, 100, 102, 58, 82, 68, 70, 32, 120, 109, 108, 110, 115, 58, 114, 100, 102, 61,
       34, 104, 116, 116, 112, 58, 47, 47, 119, 119, 119, 46, 119, 51, 46, 111, 114, 103, 47, 49,
       57, 57, 57, 47, 48, 50, 47, 50, 50, 45, 114, 100, 102, 45, 115, 121, 110, 116, 97, 120, 45,
       110, 115, 35, 34, 62, 10, 32, 32, 32, 32, 60, 114, 100, 102, 58, 68, 101, 115, 99, 114, 105,
       112, 116, 105, 111, 110, 32, 114, 100, 102, 58, 97, 98, 111, 117, 116, 61, 34, 34, 10, 32,
       32, 32, 32, 32, 32, 32, 32, 120, 109, 108, 110, 115, 58, 100, 99, 61, 34, 104, 116, 116,
       112, 58, 47, 47, 112, 117, 114, 108, 46, 111, 114, 103, 47, 100, 99, 47, 101, 108, 101, 109,
       101, 110, 116, 115, 47, 49, 46, 49, 47, 34, 10, 32, 32, 32, 32, 32, 32, 32, 32, 120, 109,
       108, 110, 115, 58, 112, 104, 111, 116, 111, 115, 104, 111, 112, 61, 34, 104, 116, 116, 112,
       58, 47, 47, 110, 115, 46, 97, 100, 111, 98, 101, 46, 99, 111, 109, 47, 112, 104, 111, 116,
       111, 115, 104, 111, 112, 47, 49, 46, 48, 47, 34, 10, 32, 32, 32, 32, 32, 32, 32, 32, 120,
       109, 108, 110, 115, 58, 73, 112, 116, 99, 52, 120, 109, 112, 67, 111, 114, 101, 61, 34, 104,
       116, 116, 112, 58, 47, 47, 105, 112, 116, 99, 46, 111, 114, 103, 47, 115, 116, 100, 47, 73,
       112, 116, 99, 52, 120, 109, 112, 67, 111, 114, 101, 47, 49, 46, 48, 47, 120, 109, 108, 110,
       115, 47, 34, 62, 10, 32, 32, 32, 32, 32, 32, 60, 100, 99, 58, 102, 111, 114, 109, 97, 116,
       62 >>

\* "</dc:format>\n
\*        <dc:title>\n
\*          <rdf:Alt>\n
\*            <rdf:li xml:lang="x-default">"
XmpTitleOpen ==
    << 60, 47, 100, 99, 58, 102, 111, 114, 109, 97, 116, 62, 10, 32, 32, 32, 32, 32, 32, 60, 100,
       99, 58, 116, 105, 116, 108, 101, 62, 10, 32, 32, 32, 32, 32, 32, 32, 32, 60, 114, 100, 102,
       58, 65, 108, 116, 62, 10, 32, 32, 32, 32, 32, 32, 32, 32, 32, 32, 60, 114, 100, 102, 58,
       108, 105, 32, 120, 109, 108, 58, 108, 97, 110, 103, 61, 34, 120, 45, 100, 101, 102, 97, 117,
       108, 116, 34, 62 >>

\* "</rdf:li>\n
\*          </rdf:Alt>\n
\*        </dc:title>\n
\*        <dc:description>\n
\*          <rdf:Alt>\n
\*            <rdf:li xml:lang="x-default">"
XmpDescriptionOpen ==
    << 60, 47, 114, 100, 102, 58, 108, 105, 62, 10, 32, 32, 32, 32, 32, 32, 32, 32, 60, 47, 114,
       100, 102, 58, 65, 108, 116, 62, 10, 32, 32, 32, 32, 32, 32, 60, 47, 100, 99, 58, 116, 105,
       116, 108, 101, 62, 10, 32, 32, 32, 32, 32, 32, 60, 100, 99, 58, 100, 101, 115, 99, 114, 105,
       112, 116, 105, 111, 110, 62, 10, 32, 32, 32, 32, 32, 32, 32, 32, 60, 114, 100, 102, 58, 65,
       108, 116, 62, 10, 32, 32, 32, 32, 32, 32, 32, 32, 32, 32, 60, 114, 100, 102, 58, 108, 105,
       32, 120, 109, 108, 58, 108, 97, 110, 103, 61, 34, 120, 45, 100, 101, 102, 97, 117, 108, 116,
       34, 62 >>

\* "</rdf:li>\n
\*          </rdf:Alt>\n
\*        </dc:description>\n
\*        <dc:subject>\n
\*          <rdf:Bag>\n
\*            "
XmpSubjectOpen ==
    << 60, 47, 114, 100, 102, 58, 108, 105, 62, 10, 32, 32, 32, 32, 32, 32, 32, 32, 60, 47, 114,
       100, 102, 58, 65, 108, 116, 62, 10, 32, 32, 32, 32, 32, 32, 60, 47, 100, 99, 58, 100, 101,
       115, 99, 114, 105, 112, 116, 105, 111, 110, 62, 10, 32, 32, 32, 32, 32, 32, 60, 100, 99, 58,
       115, 117, 98, 106, 101, 99, 116, 62, 10, 32, 32, 32, 32, 32, 32, 32, 32, 60, 114, 100, 102,
       58, 66, 97, 103, 62, 10, 32, 32, 32, 32, 32, 32, 32, 32, 32, 32 >>

\* "\n
\*          </rdf:Bag>\n
\*        </dc:subject>\n
\*        <photoshop:Headline>"
XmpHeadlineOpen ==
    << 10, 32, 32, 32, 32, 32, 32, 32, 32, 60, 47, 114, 100, 102, 58, 66, 97, 103, 62, 10, 32, 32,
       32, 32, 32, 32, 60, 47, 100, 99, 58, 115, 117, 98, 106, 101, 99, 116, 62, 10, 32, 32, 32,
       32, 32, 32, 60, 112, 104, 111, 116, 111, 115, 104, 111, 112, 58, 72, 101, 97, 100, 108, 105,
       110, 101, 62 >>

\* "</photoshop:Headline>\n
\*      </rdf:Description>\n
\*    </rdf:RDF>\n
\*  </x:xmpmeta>\n
\*  <?xpacket end="w"?>"
XmpTail ==
    << 60, 47, 112, 104, 111, 116, 111, 115, 104, 111, 112, 58, 72, 101, 97, 100, 108, 105, 110,
       101, 62, 10, 32, 32, 32, 32, 60, 47, 114, 100, 102, 58, 68, 101, 115, 99, 114, 105, 112,
       116, 105, 111, 110, 62, 10, 32, 32, 60, 47, 114, 100, 102, 58, 82, 68, 70, 62, 10, 60, 47,
       120, 58, 120, 109, 112, 109, 101, 116, 97, 62, 10, 60, 63, 120, 112, 97, 99, 107, 101, 116,
       32, 101, 110, 100, 61, 34, 119, 34, 63, 62 >>

\* "<rdf:li>"
RdfLiOpen ==
    << 60, 114, 100, 102, 58, 108, 105, 62 >>

\* "</rdf:li>"
RdfLiClose ==
    << 60, 47, 114, 100, 102, 58, 108, 105, 62 >>

\* "\n
\*            "
KeywordJoin ==
    << 10, 32, 32, 32, 32, 32, 32, 32, 32, 32, 32 >>

\* "&amp;"
EntAmp ==
    << 38, 97, 109, 112, 59 >>

\* "&lt;"
EntLt ==
    << 38, 108, 116, 59 >>

\* "&gt;"
EntGt ==
    << 38, 103, 116, 59 >>

\* str.replace(/c/g, rep) for a one-unit pattern: every occurrence, left to right
RECURSIVE ReplaceAll(_, _, _)
ReplaceAll(s, c, rep) ==
    IF Len(s) = 0 THEN << >>
    ELSE IF Len(s) = 1 THEN (IF s[1] = c THEN rep ELSE s)
    ELSE LET h == Len(s) \div 2
         IN  ReplaceAll(SubSeq(s, 1, h), c, rep) \o ReplaceAll(SubSeq(s, h + 1, Len(s)), c, rep)

\* a variant that escapes '&' after '<' and '>' instead of before them
sanitizeAmpLast(str) == ReplaceAll(ReplaceAll(ReplaceAll(str, 60, EntLt), 62, EntGt), 38, EntAmp)

\* const sanitize = (str) => str.replace(/&/g,'&amp;').replace(/</g,'&lt;').replace(/>/g,'&gt;')
sanitize(str) == ReplaceAll(ReplaceAll(ReplaceAll(str, 38, EntAmp), 60, EntLt), 62, EntGt)

\* metadata.keywords.map(kw => `<rdf:li>${sanitize(kw)}</rdf:li>`).join('\n          ')
KeywordItems(keywords) ==
    Join([i \in 1..Len(keywords) |-> RdfLiOpen \o sanitize(keywords[i]) \o RdfLiClose], KeywordJoin)

generateXmpPacket(metadata, mimeType) ==
    XmpHead \o mimeType
    \o XmpTitleOpen \o sanitize(metadata.title)
    \o XmpDescriptionOpen \o sanitize(metadata.description)
    \o XmpSubjectOpen \o KeywordItems(metadata.keywords)
    \o XmpHeadlineOpen \o sanitize(metadata.title)
    \o XmpTail

(***************************************************************************)
(* 32-bit values.  TLC's integers are 32-bit signed, so a value that the   *)
(* source holds in a 32-bit (un)signed number is modelled by its bit       *)
(* pattern: the four bytes <<b31..24, b23..16, b15..8, b7..0>>.  The       *)
(* operators ^ and >>> of the source act on exactly this pattern.          *)
(***************************************************************************)
RECURSIVE XorBits(_, _, _)
XorBits(a, b, n) ==
    IF n = 0 THEN 0
    ELSE ((a + b) % 2) + 2 * XorBits(a \div 2, b \div 2, n - 1)

\* a ^ b on 4-bit values, tabulated
XorNibble == [a \in 0..15 |-> [b \in 0..15 |-> XorBits(a, b, 4)]]

\* a ^ b on bytes
Xor8(a, b) == 16 * XorNibble[a \div 16][b \div 16] + XorNibble[a % 16][b % 16]

\* a ^ b on 32-bit patterns
Xor32(a, b) == << Xor8(a[1], b[1]), Xor8(a[2], b[2]), Xor8(a[3], b[3]), Xor8(a[4], b[4]) >>

\* a >>> 1
Ushr1(a) ==
    << a[1] \div 2,
       (a[2] \div 2) + 128 * (a[1] % 2),
       (a[3] \div 2) + 128 * (a[2] % 2),
       (a[4] \div 2) + 128 * (a[3] % 2) >>

\* a >>> 8
Ushr8(a) == << 0, a[1], a[2], a[3] >>

\* the pattern of a number 0 <= n < 2^31
Word(n) == << (n \div 16777216) % 256, (n \div 65536) % 256, (n \div 256) % 256, n % 256 >>

\* 0xEDB88320
CrcPoly == << 237, 184, 131, 32 >>

\* -1, that is 0xFFFFFFFF
MinusOne == << 255, 255, 255, 255 >>

(***************************************************************************)
(* makeCRCTable / crcTable / crc32 (part_002:665-685).                     *)
(***************************************************************************)
\* the inner loop: for (k = 0; k < 8; k++) c = (c & 1) ? (0xEDB88320 ^ (c >>> 1)) : (c >>> 1)
RECURSIVE CrcTableEntry(_, _)
CrcTableEntry(c, k) ==
    IF k = 8 THEN c
    ELSE CrcTableEntry(IF c[4] % 2 = 1 THEN Xor32(CrcPoly, Ushr1(c)) ELSE Ushr1(c), k + 1)

makeCRCTable == [n \in 0..255 |-> CrcTableEntry(Word(n), 0)]

crcTable == makeCRCTable

\* the loop of crc32 over buf, from the running value crc:
\*   crc = (crc >>> 8) ^ crcTable[(crc ^ buf[i]) & 0xFF]
\* (a function, so that the running value is computed before the next bytes are read)
CrcLoop[crc \in Seq(0..255), buf \in Seq(0..255)] ==
    IF Len(buf) = 0 THEN crc
    ELSE IF Len(buf) = 1 THEN Xor32(Ushr8(crc), crcTable[Xor8(crc[4], buf[1])])
    ELSE LET h == Len(buf) \div 2
         IN  CrcLoop[CrcLoop[crc, SubSeq(buf, 1, h)], SubSeq(buf, h + 1, Len(buf))]

\* a variant without the final inversion
crc32NoFinalXor(buf) == CrcLoop[MinusOne, buf]

\* let crc = 0 ^ (-1); ...; return (crc ^ (-1)) >>> 0
crc32(buf) == Xor32(CrcLoop[Xor32(Word(0), MinusOne), buf], MinusOne)

\* "image/jpeg"
MimeJpeg ==
    << 105, 109, 97, 103, 101, 47, 106, 112, 101, 103 >>

\* "image/png"
MimePng ==
    << 105, 109, 97, 103, 101, 47, 112, 110, 103 >>

\* "image/svg+xml"
MimeSvg ==
    << 105, 109, 97, 103, 101, 47, 115, 118, 103, 43, 120, 109, 108 >>

\* "application/postscript"
MimePostscript ==
    << 97, 112, 112, 108, 105, 99, 97, 116, 105, 111, 110, 47, 112, 111, 115, 116, 115, 99, 114,
       105, 112, 116 >>

\* "video/mp4"
MimeMp4 ==
    << 118, 105, 100, 101, 111, 47, 109, 112, 52 >>

\* "video/"
VideoPrefix ==
    << 118, 105, 100, 101, 111, 47 >>

\* ".jpg"
ExtJpg ==
    << 46, 106, 112, 103 >>

\* ".jpeg"
ExtJpeg ==
    << 46, 106, 112, 101, 103 >>

\* ".png"
ExtPng ==
    << 46, 112, 110, 103 >>

\* ".svg"
ExtSvg ==
    << 46, 115, 118, 103 >>

\* ".eps"
ExtEps ==
    << 46, 101, 112, 115 >>

\* ".mp4"
ExtMp4 ==
    << 46, 109, 112, 52 >>

\* ".mov"
ExtMov ==
    << 46, 109, 111, 118 >>

\* "http://ns.adobe.com/xap/1.0/\x00"
XmpNamespaceHeader ==
    << 104, 116, 116, 112, 58, 47, 47, 110, 115, 46, 97, 100, 111, 98, 101, 46, 99, 111, 109, 47,
       120, 97, 112, 47, 49, 46, 48, 47, 0 >>

\* "XML:com.adobe.xmp"
PngKeyword ==
    << 88, 77, 76, 58, 99, 111, 109, 46, 97, 100, 111, 98, 101, 46, 120, 109, 112 >>

\* "iTXt"
PngChunkType ==
    << 105, 84, 88, 116 >>

\* "uuid"
BoxType ==
    << 117, 117, 105, 100 >>

\* "%%EndComments"
EndCommentsToken ==
    << 37, 37, 69, 110, 100, 67, 111, 109, 109, 101, 110, 116, 115 >>

\* "%!PS-Adobe"
PsAdobeToken ==
    << 37, 33, 80, 83, 45, 65, 100, 111, 98, 101 >>

\* "\n
\*  %begin_xml_packet: w begin="\ufeff" id="W5M0MpCehiHzreSzNTczkc9d"\n
\*  "
EpsPacketOpen ==
    << 10, 37, 98, 101, 103, 105, 110, 95, 120, 109, 108, 95, 112, 97, 99, 107, 101, 116, 58, 32,
       119, 32, 98, 101, 103, 105, 110, 61, 34, 65279, 34, 32, 105, 100, 61, 34, 87, 53, 77, 48,
       77, 112, 67, 101, 104, 105, 72, 122, 114, 101, 83, 122, 78, 84, 99, 122, 107, 99, 57, 100,
       34, 10 >>

\* "\n
\*  %end_xml_packet\n
\*  "
EpsPacketClose ==
    << 10, 37, 101, 110, 100, 95, 120, 109, 108, 95, 112, 97, 99, 107, 101, 116, 10 >>

\* "% "
EpsCommentPrefix ==
    << 37, 32 >>

\* "<metadata>"
MetadataOpenTag ==
    << 60, 109, 101, 116, 97, 100, 97, 116, 97, 62 >>

\* "</metadata>"
MetadataCloseTag ==
    << 60, 47, 109, 101, 116, 97, 100, 97, 116, 97, 62 >>

\* "</svg>"
SvgCloseTag ==
    << 60, 47, 115, 118, 103, 62 >>

(***************************************************************************)
(* Typed arrays.                                                           *)
(***************************************************************************)
\* new Uint8Array(n): n zero bytes
Uint8Array(n) == [i \in 1..n |-> 0]

\* target.set(src, offset) succeeds; otherwise it throws a RangeError
SetFits(target, src, offset) == offset + Len(src) <= Len(target)

\* target after target.set(src, offset)
SetAt(target, src, offset) ==
    SubSeq(target, 1, offset) \o src \o SubSeq(target, offset + Len(src) + 1, Len(target))

\* the four bytes DataView.setUint32(_, n, false) writes, for 0 <= n < 2^31
Uint32BE(n) == Word(n)

(***************************************************************************)
(* embedMetadataInPng, the body of reader.onload (part_002:949-1003).      *)
(***************************************************************************)
\* insertPos
insertPos == 33

\* a test of the first byte alone
PngSignatureMismatchFirstByte(uint8) == Len(uint8) < 1 \/ At(uint8, 0) # 137

\* uint8[0] !== 0x89 || uint8[1] !== 0x50  (a missing element is undefined)
PngSignatureMismatch(uint8) ==
    \/ Len(uint8) < 1
    \/ At(uint8, 0) # 137
    \/ Len(uint8) < 2
    \/ At(uint8, 1) # 80

\* chunk data with one NUL fewer between the keyword and the text
PngChunkDataFourZeros(xmpBytes) == TextEncode(PngKeyword) \o <<0, 0, 0, 0>> \o xmpBytes

\* chunkData: keyword, NUL, compression flag, compression method, NUL, NUL, XMP
PngChunkData(xmpBytes) ==
    LET keywordBytes == TextEncode(PngKeyword)
        dataLen == Len(keywordBytes) + 1 + 2 + 1 + 1 + Len(xmpBytes)
        filled == SetAt(Uint8Array(dataLen), keywordBytes, 0)
    IN  SetAt(filled, xmpBytes, Len(keywordBytes) + 5)

\* a variant that leaves out the final inversion of the CRC
PngFullChunkRawCrc(chunkData) ==
    LET typeBytes == TextEncode(PngChunkType)
    IN  Uint32BE(Len(chunkData)) \o typeBytes \o chunkData \o crc32NoFinalXor(typeBytes \o chunkData)

\* fullChunk: length, type, data, CRC over type + data
PngFullChunk(chunkData) ==
    LET typeBytes == TextEncode(PngChunkType)
        crcBuff == SetAt(SetAt(Uint8Array(Len(typeBytes) + Len(chunkData)), typeBytes, 0),
                         chunkData, Len(typeBytes))
        crcVal == crc32(crcBuff)
        chunkLen == Len(chunkData)
        full0 == Uint8Array(4 + 4 + chunkLen + 4)
        full1 == SetAt(full0, Uint32BE(chunkLen), 0)
        full2 == SetAt(full1, typeBytes, 4)
        full3 == SetAt(full2, chunkData, 8)
    IN  SetAt(full3, crcVal, 8 + chunkLen)

\* the three set calls on newPngBuffer all fit
PngSpliceFits(uint8, fullChunk) ==
    LET buf == Uint8Array(Len(uint8) + Len(fullChunk))
    IN  /\ SetFits(buf, Slice(uint8, 0, insertPos), 0)
        /\ SetFits(buf, fullChunk, insertPos)
        /\ SetFits(buf, SliceFrom(uint8, insertPos), insertPos + Len(fullChunk))

\* a variant that copies the tail from one byte too far
PngSpliceSkipByte(uint8, fullChunk) ==
    LET buf0 == Uint8Array(Len(uint8) + Len(fullChunk))
        buf1 == SetAt(buf0, Slice(uint8, 0, insertPos), 0)
        buf2 == SetAt(buf1, fullChunk, insertPos)
    IN  SetAt(buf2, SliceFrom(uint8, insertPos + 1), insertPos + Len(fullChunk))

\* newPngBuffer
PngSplice(uint8, fullChunk) ==
    LET buf0 == Uint8Array(Len(uint8) + Len(fullChunk))
        buf1 == SetAt(buf0, Slice(uint8, 0, insertPos), 0)
        buf2 == SetAt(buf1, fullChunk, insertPos)
    IN  SetAt(buf2, SliceFrom(uint8, insertPos), insertPos + Len(fullChunk))

(***************************************************************************)
(* embedMetadataInVideo (part_002:1010-1047).                              *)
(***************************************************************************)
\* Adobe XMP UUID BE7ACFCB-97A9-42E8-9C71-999491E3AFAC
XmpUuid == << 190, 122, 207, 203, 151, 169, 66, 232, 156, 113, 153, 148, 145, 227, 175, 172 >>

\* a variant whose size field counts the payload only
VideoBoxPayloadSize(xmpBytes) ==
    LET boxSize == 4 + 4 + 16 + Len(xmpBytes)
        box1 == SetAt(Uint8Array(boxSize), Uint32BE(Len(xmpBytes)), 0)
        box2 == SetAt(box1, TextEncode(BoxType), 4)
        box3 == SetAt(box2, XmpUuid, 8)
    IN  SetAt(box3, xmpBytes, 24)

\* box: size, 'uuid', extended type, XMP
VideoBox(xmpBytes) ==
    LET boxSize == 4 + 4 + 16 + Len(xmpBytes)
        box1 == SetAt(Uint8Array(boxSize), Uint32BE(boxSize), 0)
        box2 == SetAt(box1, TextEncode(BoxType), 4)
        box3 == SetAt(box2, XmpUuid, 4 + 4)
    IN  SetAt(box3, xmpBytes, 4 + 4 + 16)

(***************************************************************************)
(* embedMetadataInEps, the body of reader.onload (part_002:854-937).       *)
(***************************************************************************)
\* the search limit of the header token, and the width of the newline scan
HeaderSearchLimit == 1024
NewlineScanWindow == 256

\* the loop of findBinarySequence over i in lo..hi: the first i at which the
\* inner loop finds no mismatch, or -1
RECURSIVE FindLoop(_, _, _, _)
FindLoop(haystack, seq, lo, hi) ==
    IF lo > hi THEN -1
    ELSE IF lo = hi THEN (IF \A j \in 0..(Len(seq) - 1) : At(haystack, lo + j) = At(seq, j)
                          THEN lo ELSE -1)
    ELSE LET mid == (lo + hi) \div 2
             first == FindLoop(haystack, seq, lo, mid)
         IN  IF first # -1 THEN first ELSE FindLoop(haystack, seq, mid + 1, hi)

\* a search in which only the start of an occurrence has to lie before the limit
findBinarySequenceStartBeforeLimit(haystack, pattern, limit) ==
    LET len == Len(haystack)
        seqLen == Len(pattern)
        max == IF limit # 0 THEN (IF len < limit THEN len ELSE limit) ELSE len
        last == IF max - 1 < len - seqLen THEN max - 1 ELSE len - seqLen
    IN  FindLoop(haystack, pattern, 0, last)

\* findBinarySequence(haystack, pattern, limit); limit = 0 stands for an omitted
\* limit (the source tests `limit ?`, which treats 0 and undefined alike)
findBinarySequence(haystack, pattern, limit) ==
    LET len == Len(haystack)
        seqLen == Len(pattern)
        max == IF limit # 0 THEN (IF len < limit THEN len ELSE limit) ELSE len
    IN  FindLoop(haystack, pattern, 0, max - seqLen)

\* the loop over k in lo..hi: the first k with data[k] === 0x0A || data[k] === 0x0D, or -1
RECURSIVE NewlineLoop(_, _, _)
NewlineLoop(data, lo, hi) ==
    IF lo > hi THEN -1
    ELSE IF lo = hi THEN (IF At(data, lo) = 10 \/ At(data, lo) = 13 THEN lo ELSE -1)
    ELSE LET mid == (lo + hi) \div 2
             first == NewlineLoop(data, lo, mid)
         IN  IF first # -1 THEN first ELSE NewlineLoop(data, mid + 1, hi)

\* a variant that steps over a CR without looking for the LF of a CR LF pair
EpsInsertIndexNoPair(data) ==
    LET endCommentsIndex == findBinarySequence(data, EndCommentsToken, 0)
        headerIndex == findBinarySequence(data, PsAdobeToken, HeaderSearchLimit)
        scanLimit == IF Len(data) < headerIndex + NewlineScanWindow
                     THEN Len(data) ELSE headerIndex + NewlineScanWindow
        newlineIndex == NewlineLoop(data, headerIndex, scanLimit - 1)
    IN  IF endCommentsIndex # -1 THEN endCommentsIndex + 13
        ELSE IF headerIndex # -1
             THEN IF newlineIndex # -1 THEN newlineIndex + 1 ELSE headerIndex + 10
             ELSE 0

\* a variant that inserts before the last byte of %%EndComments
EpsInsertIndexShort(data) ==
    LET endCommentsIndex == findBinarySequence(data, EndCommentsToken, 0)
    IN  IF endCommentsIndex # -1 THEN endCommentsIndex + 12 ELSE EpsInsertIndexNoPair(data)

\* insertIndex
EpsInsertIndex(data) ==
    LET endCommentsIndex == findBinarySequence(data, EndCommentsToken, 0)
        headerIndex == findBinarySequence(data, PsAdobeToken, HeaderSearchLimit)
        scanLimit == IF Len(data) < headerIndex + NewlineScanWindow
                     THEN Len(data) ELSE headerIndex + NewlineScanWindow
        newlineIndex == NewlineLoop(data, headerIndex, scanLimit - 1)
    IN  IF endCommentsIndex # -1 THEN endCommentsIndex + 13
        ELSE IF headerIndex # -1
             THEN IF newlineIndex # -1
                  THEN IF /\ At(data, newlineIndex) = 13
                          /\ newlineIndex + 1 < Len(data)
                          /\ At(data, newlineIndex + 1) = 10
                       THEN newlineIndex + 2
                       ELSE newlineIndex + 1
                  ELSE headerIndex + 10
             ELSE 0

\* xmp.split('\n'): the lines of a string
RECURSIVE SplitLines(_)
SplitLines(s) ==
    IF Len(s) = 0 THEN << << >> >>
    ELSE IF Len(s) = 1 THEN (IF s[1] = 10 THEN << << >>, << >> >> ELSE << s >>)
    ELSE LET h == Len(s) \div 2
             l == SplitLines(SubSeq(s, 1, h))
             r == SplitLines(SubSeq(s, h + 1, Len(s)))
         IN  SubSeq(l, 1, Len(l) - 1) \o << l[Len(l)] \o r[1] >> \o SubSeq(r, 2, Len(r))

\* packetStr
EpsPacketStr(xmp) ==
    LET xmpLines == SplitLines(xmp)
        commentedXmp == Join([i \in 1..Len(xmpLines) |-> EpsCommentPrefix \o xmpLines[i]], << 10 >>)
    IN  EpsPacketOpen \o commentedXmp \o EpsPacketClose

\* newBlob: [data.slice(0, insertIndex), packetBytes, data.slice(insertIndex)]
EpsSplice(data, index, packetBytes) ==
    Slice(data, 0, index) \o packetBytes \o SliceFrom(data, index)

(***************************************************************************)
(* Blob.text(): UTF-8 decode.  One-, two- and three-byte sequences decode  *)
(* to their code unit; a byte that is part of no such sequence decodes to  *)
(* U+FFFD; a leading byte order mark is dropped.  (The inputs of the model *)
(* hold no four-byte sequences.)                                           *)
(***************************************************************************)
IsCont(bytes, i) == i < Len(bytes) /\ At(bytes, i) >= 128 /\ At(bytes, i) <= 191

\* a well-formed two-byte / three-byte sequence starts at offset i
Lead2(bytes, i) ==
    i >= 0 /\ i < Len(bytes) /\ At(bytes, i) >= 194 /\ At(bytes, i) <= 223 /\ IsCont(bytes, i + 1)
Lead3(bytes, i) ==
    /\ i >= 0 /\ i < Len(bytes) /\ At(bytes, i) >= 224 /\ At(bytes, i) <= 239
    /\ IsCont(bytes, i + 1) /\ IsCont(bytes, i + 2)
    /\ (At(bytes, i) = 224 => At(bytes, i + 1) >= 160)
    /\ (At(bytes, i) = 237 => At(bytes, i + 1) <= 159)

\* a three-byte sequence that breaks off after its first continuation byte
\* starts at offset i (the decoder reports the two bytes as one error)
Broken3(bytes, i) ==
    /\ i >= 0 /\ i < Len(bytes) /\ At(bytes, i) >= 224 /\ At(bytes, i) <= 239
    /\ IsCont(bytes, i + 1) /\ ~IsCont(bytes, i + 2)
    /\ (At(bytes, i) = 224 => At(bytes, i + 1) >= 160)
    /\ (At(bytes, i) = 237 => At(bytes, i + 1) <= 159)

\* the code units the byte at offset i contributes
DecodeAt(bytes, i) ==
    LET b == At(bytes, i)
    IN  IF b < 128 THEN << b >>
        ELSE IF Lead2(bytes, i) THEN << (b - 192) * 64 + (At(bytes, i + 1) - 128) >>
        ELSE IF Lead3(bytes, i)
             THEN << (b - 224) * 4096 + (At(bytes, i + 1) - 128) * 64 + (At(bytes, i + 2) - 128) >>
        ELSE IF Lead2(bytes, i - 1) \/ Lead3(bytes, i - 1) \/ Lead3(bytes, i - 2) THEN << >>
        ELSE IF Broken3(bytes, i - 1) THEN << >>
        ELSE << 65533 >>

RECURSIVE DecodeRange(_, _, _)
DecodeRange(bytes, lo, hi) ==
    IF lo > hi THEN << >>
    ELSE IF lo = hi THEN DecodeAt(bytes, lo)
    ELSE LET mid == (lo + hi) \div 2
         IN  DecodeRange(bytes, lo, mid) \o DecodeRange(bytes, mid + 1, hi)

BlobText(bytes) ==
    LET units == DecodeRange(bytes, 0, Len(bytes) - 1)
    IN  IF Len(units) > 0 /\ units[1] = 65279 THEN Tail(units) ELSE units

(***************************************************************************)
(* String.prototype.replace with a replacement string: the replacement is  *)
(* not inserted verbatim, its $-patterns are expanded (GetSubstitution):   *)
(* $$ is '$', $& the match, $` the text before it, $' the text after it,   *)
(* $1 the first capture when the pattern has one.  (The inputs of the      *)
(* model hold no digit but '1'.)                                           *)
(***************************************************************************)
\* the number of '$' immediately before offset i of r
RECURSIVE DollarsBefore(_, _)
DollarsBefore(r, i) ==
    IF i = 0 \/ At(r, i - 1) # 36 THEN 0 ELSE 1 + DollarsBefore(r, i - 1)

\* the unit c after a '$' makes a pattern with it
IsPatternUnit(c, nCaptures) ==
    c = 36 \/ c = 38 \/ c = 96 \/ c = 39 \/ (c = 49 /\ nCaptures >= 1)

\* what offset i of the replacement r contributes to the result
SubstituteAt(r, i, str, position, matched, captures) ==
    LET c == At(r, i)
        opensPattern == DollarsBefore(r, i) % 2 = 1
    IN  IF opensPattern /\ IsPatternUnit(c, Len(captures))
        THEN IF c = 36 THEN << 36 >>
             ELSE IF c = 38 THEN matched
             ELSE IF c = 96 THEN Slice(str, 0, position)
             ELSE IF c = 39 THEN SliceFrom(str, position + Len(matched))
             ELSE captures[1]
        ELSE IF /\ c = 36
                /\ i + 1 < Len(r)
                /\ IsPatternUnit(At(r, i + 1), Len(captures))
             THEN << >>
             ELSE << c >>

RECURSIVE SubstituteRange(_, _, _, _, _, _, _)
SubstituteRange(r, lo, hi, str, position, matched, captures) ==
    IF lo > hi THEN << >>
    ELSE IF lo = hi THEN SubstituteAt(r, lo, str, position, matched, captures)
    ELSE LET mid == (lo + hi) \div 2
         IN  SubstituteRange(r, lo, mid, str, position, matched, captures)
             \o SubstituteRange(r, mid + 1, hi, str, position, matched, captures)

GetSubstitution(r, str, position, matched, captures) ==
    SubstituteRange(r, 0, Len(r) - 1, str, position, matched, captures)

\* str.replace(pattern, replacement) for a string pattern: the first occurrence
ReplaceString(str, pattern, replacement) ==
    LET position == IndexOf(str, pattern, 0)
    IN  IF position = -1 THEN str
        ELSE Slice(str, 0, position)
             \o GetSubstitution(replacement, str, position, pattern, << >>)
             \o SliceFrom(str, position + Len(pattern))

\* str.replace(/<metadata>(.*?)<\/metadata>/s, replacement): the leftmost
\* <metadata> that a </metadata> follows, up to the nearest </metadata>
ReplaceMetadataElement(str, replacement) ==
    LET open == IndexOf(str, MetadataOpenTag, 0)
        close == IF open = -1 THEN -1
                 ELSE IndexOf(str, MetadataCloseTag, open + Len(MetadataOpenTag))
        matched == Slice(str, open, close + Len(MetadataCloseTag))
        capture == Slice(str, open + Len(MetadataOpenTag), close)
    IN  IF close = -1 THEN str
        ELSE Slice(str, 0, open)
             \o GetSubstitution(replacement, str, open, matched, << capture >>)
             \o SliceFrom(str, close + Len(MetadataCloseTag))

(***************************************************************************)
(* embedMetadataInSvg after `await file.text()` (part_002:835-846).        *)
(***************************************************************************)
\* newSvgContent
SvgContent(text, xmp) ==
    IF Includes(text, MetadataOpenTag)
    THEN ReplaceMetadataElement(text, MetadataOpenTag \o xmp \o MetadataCloseTag)
    ELSE IF Includes(text, SvgCloseTag)
    THEN ReplaceString(text, SvgCloseTag, MetadataOpenTag \o xmp \o MetadataCloseTag \o SvgCloseTag)
    ELSE text \o << 10 >> \o MetadataOpenTag \o xmp \o MetadataCloseTag

\* "Exif\x00\x00MM\x00*\x00\x00\x00\x08"
ExifHeader ==
    << 69, 120, 105, 102, 0, 0, 77, 77, 0, 42, 0, 0, 0, 8 >>

\* "Exif\x00\x00"
ExifMarker ==
    << 69, 120, 105, 102, 0, 0 >>

\* "VisionMeta AI Tagger"
SoftwareName ==
    << 86, 105, 115, 105, 111, 110, 77, 101, 116, 97, 32, 65, 73, 32, 84, 97, 103, 103, 101, 114 >>

\* " - "
DescriptionSeparator ==
    << 32, 45, 32 >>

\* "data:image/jpeg;base64,"
DataUrlJpeg ==
    << 100, 97, 116, 97, 58, 105, 109, 97, 103, 101, 47, 106, 112, 101, 103, 59, 98, 97, 115, 101,
       54, 52, 44 >>

\* "data:image/jpg;base64,"
DataUrlJpg ==
    << 100, 97, 116, 97, 58, 105, 109, 97, 103, 101, 47, 106, 112, 103, 59, 98, 97, 115, 101, 54,
       52, 44 >>

\* "data:"
DataScheme ==
    << 100, 97, 116, 97, 58 >>

\* ";base64,"
Base64Tag ==
    << 59, 98, 97, 115, 101, 54, 52, 44 >>

\* "application/octet-stream"
MimeOctetStream ==
    << 97, 112, 112, 108, 105, 99, 97, 116, 105, 111, 110, 47, 111, 99, 116, 101, 116, 45, 115,
       116, 114, 101, 97, 109 >>

(***************************************************************************)
(* btoa / atob and FileReader.readAsDataURL.                               *)
(***************************************************************************)
\* the character of a 6-bit value, and the value of a character
Base64Unit(v) ==
    IF v < 26 THEN 65 + v
    ELSE IF v < 52 THEN 97 + (v - 26)
    ELSE IF v < 62 THEN 48 + (v - 52)
    ELSE IF v = 62 THEN 43 ELSE 47

Base64Value(c) ==
    IF c >= 65 /\ c <= 90 THEN c - 65
    ELSE IF c >= 97 /\ c <= 122 THEN c - 97 + 26
    ELSE IF c >= 48 /\ c <= 57 THEN c - 48 + 52
    ELSE IF c = 43 THEN 62 ELSE 63

\* the four characters of a group of one, two or three bytes
Base64Group(g) ==
    LET b1 == g[1]
        b2 == IF Len(g) >= 2 THEN g[2] ELSE 0
        b3 == IF Len(g) >= 3 THEN g[3] ELSE 0
    IN  << Base64Unit(b1 \div 4),
           Base64Unit((b1 % 4) * 16 + (b2 \div 16)),
           IF Len(g) >= 2 THEN Base64Unit((b2 % 16) * 4 + (b3 \div 64)) ELSE 61,
           IF Len(g) >= 3 THEN Base64Unit(b3 % 64) ELSE 61 >>

\* btoa(s) throws when a unit of s is above 255
BtoaThrows(s) == \E i \in 1..Len(s) : s[i] > 255

\* btoa(s): groups lo..hi of s
RECURSIVE BtoaGroups(_, _, _)
BtoaGroups(s, lo, hi) ==
    IF lo > hi THEN << >>
    ELSE IF lo = hi THEN Base64Group(Slice(s, 3 * lo, 3 * lo + 3))
    ELSE LET mid == (lo + hi) \div 2
         IN  BtoaGroups(s, lo, mid) \o BtoaGroups(s, mid + 1, hi)

btoa(s) == BtoaGroups(s, 0, ((Len(s) + 2) \div 3) - 1)

\* the bytes of a group of four characters ('=' is 61)
AtobGroup(g) ==
    LET v1 == Base64Value(g[1])
        v2 == Base64Value(g[2])
        v3 == IF g[3] = 61 THEN 0 ELSE Base64Value(g[3])
        v4 == IF g[4] = 61 THEN 0 ELSE Base64Value(g[4])
        all == << v1 * 4 + (v2 \div 16), (v2 % 16) * 16 + (v3 \div 4), (v3 % 4) * 64 + v4 >>
    IN  IF g[3] = 61 THEN SubSeq(all, 1, 1)
        ELSE IF g[4] = 61 THEN SubSeq(all, 1, 2)
        ELSE all

\* atob(s) for the padded output of btoa: groups lo..hi of s
RECURSIVE AtobGroups(_, _, _)
AtobGroups(s, lo, hi) ==
    IF lo > hi THEN << >>
    ELSE IF lo = hi THEN AtobGroup(Slice(s, 4 * lo, 4 * lo + 4))
    ELSE LET mid == (lo + hi) \div 2
         IN  AtobGroups(s, lo, mid) \o AtobGroups(s, mid + 1, hi)

atob(s) == AtobGroups(s, 0, (Len(s) \div 4) - 1)

\* reader.readAsDataURL(file): e.target.result
readAsDataURL(file) ==
    DataScheme \o (IF Len(file.type) = 0 THEN MimeOctetStream ELSE file.type)
    \o Base64Tag \o btoa(file.data)

\* dataUrl.split(',')[1]
AfterComma(dataUrl) == SliceFrom(dataUrl, IndexOf(dataUrl, << 44 >>, 0) + 1)

(***************************************************************************)
(* The EXIF block of embedMetadataInJpeg (part_002:738-756) as piexifjs    *)
(* serialises it: piexif.dump writes "Exif\0\0", a big-endian TIFF header  *)
(* and the 0th IFD, its entries in ascending tag order, a value longer     *)
(* than four bytes being stored after the entries and referenced by its    *)
(* offset.  A binary string is the sequence of its code units.             *)
(***************************************************************************)
\* one unit of strToUCS2: low byte, high byte
Ucs2Unit(code) == << code % 256, (code \div 256) % 256 >>

RECURSIVE Ucs2Units(_)
Ucs2Units(str) ==
    IF Len(str) = 0 THEN << >>
    ELSE IF Len(str) = 1 THEN Ucs2Unit(str[1])
    ELSE LET h == Len(str) \div 2
         IN  Ucs2Units(SubSeq(str, 1, h)) \o Ucs2Units(SubSeq(str, h + 1, Len(str)))

\* strToUCS2
strToUCS2(str) == Ucs2Units(str) \o << 0, 0 >>

\* pack(">H", [n]) and pack(">L", [n])
PackH(n) == << (n \div 256) % 256, n % 256 >>
PackL(n) == Word(n)

\* the 0th IFD of the source: <<tag, TIFF type, value>>; Ascii (2) values end in NUL
ZerothIfd(metadata) ==
    << << 270, 2, metadata.title \o DescriptionSeparator \o metadata.description \o << 0 >> >>,
       << 305, 2, SoftwareName \o << 0 >> >>,
       << 40091, 1, strToUCS2(metadata.title) >>,
       << 40092, 1, strToUCS2(metadata.description) >>,
       << 40094, 1, strToUCS2(Join(metadata.keywords, << 59 >>)) >> >>

\* the bytes stored after the entries by the first n tags
RECURSIVE IfdValues(_, _)
IfdValues(ifd, n) ==
    IF n = 0 THEN << >>
    ELSE IfdValues(ifd, n - 1) \o (IF Len(ifd[n][3]) > 4 THEN ifd[n][3] ELSE << >>)

\* the 12-byte entry of tag n
IfdEntry(ifd, n) ==
    LET value == ifd[n][3]
        offset == 8 + (2 + 12 * Len(ifd) + 4) + Len(IfdValues(ifd, n - 1))
    IN  PackH(ifd[n][1]) \o PackH(ifd[n][2]) \o PackL(Len(value))
        \o (IF Len(value) > 4 THEN PackL(offset) ELSE value \o Uint8Array(4 - Len(value)))

\* piexif.dump(exifObj)
PiexifDump(metadata) ==
    LET ifd == ZerothIfd(metadata)
    IN  ExifHeader \o PackH(Len(ifd))
        \o Join([n \in 1..Len(ifd) |-> IfdEntry(ifd, n)], << >>)
        \o << 0, 0, 0, 0 >> \o IfdValues(ifd, Len(ifd))

(***************************************************************************)
(* piexif.insert(exifBytes, jpegDataUrl) (called at part_002:759).  It     *)
(* throws unless the data URL is one of image/jpeg, when the EXIF block    *)
(* exceeds a segment, when the data does not split into JPEG segments up   *)
(* to a start-of-scan marker, and when btoa meets a unit above 255.        *)
(***************************************************************************)
\* splitIntoSegments from offset head: [threw, segments]
RECURSIVE SplitSegments(_, _)
SplitSegments(data, head) ==
    IF Slice(data, head, head + 2) = << 255, 218 >>
    THEN [threw |-> FALSE, segments |-> << SliceFrom(data, head) >>]
    ELSE IF Len(Slice(data, head + 2, head + 4)) # 2
    THEN [threw |-> TRUE, segments |-> << >>]
    ELSE LET length == 256 * At(data, head + 2) + At(data, head + 3)
             endPoint == head + length + 2
             rest == SplitSegments(data, endPoint)
         IN  IF endPoint >= Len(data) \/ rest.threw
             THEN [threw |-> TRUE, segments |-> << >>]
             ELSE [threw |-> FALSE, segments |-> << Slice(data, head, endPoint) >> \o rest.segments]

\* the segment is an APP1 segment holding EXIF
IsExifSegment(segment) ==
    Slice(segment, 0, 2) = << 255, 225 >> /\ Slice(segment, 4, 10) = ExifMarker

\* mergeSegments: the first EXIF segment is replaced and later ones dropped;
\* without one the new segment follows the start-of-image marker
MergeSegments(segments, exif) ==
    LET exifAt == {i \in 1..Len(segments) : IsExifSegment(segments[i])}
        first == CHOOSE i \in exifAt : \A j \in exifAt : i <= j
        kept == [i \in 1..Len(segments) |->
                    IF i \in exifAt THEN (IF i = first THEN exif ELSE << >>) ELSE segments[i]]
    IN  IF exifAt = {} THEN segments[1] \o exif \o Join(Tail(segments), << >>)
        ELSE Join(kept, << >>)

\* piexif.insert: [threw, url], url being the new data URL
PiexifInsert(exif, jpeg) ==
    LET isJpegUrl == Slice(jpeg, 0, 23) = DataUrlJpeg \/ Slice(jpeg, 0, 22) = DataUrlJpg
        binary == atob(AfterComma(jpeg))
        exifStr == << 255, 225 >> \o PackH(Len(exif) + 2) \o exif
        split == SplitSegments(binary, 2)
        newData == MergeSegments(<< << 255, 216 >> >> \o split.segments, exifStr)
        threw == \/ ~isJpegUrl
                 \/ Len(exif) + 2 > 65535
                 \/ Slice(binary, 0, 2) # << 255, 216 >>
                 \/ split.threw
                 \/ BtoaThrows(newData)
    IN  IF threw THEN [threw |-> TRUE, url |-> << >>]
        ELSE [threw |-> FALSE, url |-> DataUrlJpeg \o btoa(newData)]

(***************************************************************************)
(* embedMetadataInJpeg, the body of reader.onload after the EXIF step      *)
(* (part_002:761-820).                                                     *)
(***************************************************************************)
\* app1Segment: FF E1, the length (big endian, (segmentLen >> 8) & 0xFF and
\* segmentLen & 0xFF), the namespace header, the XMP bytes
JpegApp1Segment(xmpBytes) ==
    LET headerBytes == TextEncode(XmpNamespaceHeader)
        payloadLen == Len(headerBytes) + Len(xmpBytes)
        segmentLen == payloadLen + 2
        seg0 == Uint8Array(2 + 2 + payloadLen)
        seg1 == SetAt(seg0, << 255, 225 >>, 0)
        seg2 == SetAt(seg1, << (segmentLen \div 256) % 256, segmentLen % 256 >>, 2)
        seg3 == SetAt(seg2, headerBytes, 4)
    IN  SetAt(seg3, xmpBytes, 4 + Len(headerBytes))

\* fileBytes[0] === 0xFF && fileBytes[1] === 0xD8
JpegHasSoi(fileBytes) ==
    Len(fileBytes) >= 2 /\ At(fileBytes, 0) = 255 /\ At(fileBytes, 1) = 216

\* a splice that puts the segment after the first four bytes
JpegSpliceAfterFour(fileBytes, app1Segment) ==
    Slice(fileBytes, 0, 4) \o app1Segment \o SliceFrom(fileBytes, 4)

\* finalBytes
JpegSplice(fileBytes, app1Segment) ==
    LET out0 == Uint8Array(Len(fileBytes) + Len(app1Segment))
        out1 == SetAt(out0, Slice(fileBytes, 0, 2), 0)
        out2 == SetAt(out1, app1Segment, 2)
    IN  SetAt(out2, SliceFrom(fileBytes, 2), 2 + Len(app1Segment))

(***************************************************************************)
(* Input files of the model.                                                *)
(***************************************************************************)
\* file names: "a.jpg"
NameJpg ==
    << 97, 46, 106, 112, 103 >>

\* "a.jpeg"
NameJpeg ==
    << 97, 46, 106, 112, 101, 103 >>

\* "A.JPG"
NameJpgUpper ==
    << 65, 46, 74, 80, 71 >>

\* "a.png"
NamePng ==
    << 97, 46, 112, 110, 103 >>

\* "a.svg"
NameSvg ==
    << 97, 46, 115, 118, 103 >>

\* "a.eps"
NameEps ==
    << 97, 46, 101, 112, 115 >>

\* "a.mp4"
NameMp4 ==
    << 97, 46, 109, 112, 52 >>

\* "a.MOV"
NameMovUpper ==
    << 97, 46, 77, 79, 86 >>

\* "a.gif"
NameGif ==
    << 97, 46, 103, 105, 102 >>

\* "jpg"
NameNoDot ==
    << 106, 112, 103 >>

\* "a.jpg.txt"
NameTxt ==
    << 97, 46, 106, 112, 103, 46, 116, 120, 116 >>

\* "video/quicktime"
MimeQuicktime ==
    << 118, 105, 100, 101, 111, 47, 113, 117, 105, 99, 107, 116, 105, 109, 101 >>

\* "image/gif"
MimeGif ==
    << 105, 109, 97, 103, 101, 47, 103, 105, 102 >>

\* SOI, an APP0 segment, start of scan, two bytes, EOI
JpegMinimal ==
    << 255, 216, 255, 224, 0, 4, 74, 70, 255, 218, 0, 2, 1, 2, 255, 217 >>

\* SOI, an APP1 segment "Exif\0\0MM", start of scan, EOI
JpegWithExif ==
    << 255, 216, 255, 225, 0, 10, 69, 120, 105, 102, 0, 0, 77, 77, 255, 218, 0, 255, 217 >>

\* SOI immediately followed by the start of scan
JpegScanOnly ==
    << 255, 216, 255, 218, 1 >>

\* the two-byte SOI marker alone
JpegStub ==
    << 255, 216 >>

\* SOI and an APP0 segment that declares more bytes than the file holds
JpegTruncated ==
    << 255, 216, 255, 224, 0, 16, 74 >>

\* signature, IHDR (1x1, 8-bit grey), IEND
PngMinimal ==
    << 137, 80, 78, 71, 13, 10, 26, 10, 0, 0, 0, 13, 73, 72, 68, 82, 0, 0, 0, 1, 0, 0, 0, 1, 8, 0,
       0, 0, 0, 58, 126, 155, 85, 0, 0, 0, 0, 73, 69, 78, 68, 174, 66, 96, 130 >>

\* signature and IHDR: exactly 33 bytes
PngHeaderOnly ==
    << 137, 80, 78, 71, 13, 10, 26, 10, 0, 0, 0, 13, 73, 72, 68, 82, 0, 0, 0, 1, 0, 0, 0, 1, 8, 0,
       0, 0, 0, 58, 126, 155, 85 >>

\* the 8 signature bytes alone
PngSignatureOnly ==
    << 137, 80, 78, 71, 13, 10, 26, 10 >>

\* 89 50 followed by 38 bytes that are no PNG structure
PngNoIhdr ==
    << 137, 80, 7, 7, 7, 7, 7, 7, 7, 7, 7, 7, 7, 7, 7, 7, 7, 7, 7, 7, 7, 7, 7, 7, 7, 7, 7, 7, 7, 7,
       7, 7, 7, 7, 7, 7, 7, 7, 7, 7 >>

\* "<svg></svg>"
SvgPlain ==
    << 60, 115, 118, 103, 62, 60, 47, 115, 118, 103, 62 >>

\* "<svg><metadata>old</metadata></svg>"
SvgWithMetadata ==
    << 60, 115, 118, 103, 62, 60, 109, 101, 116, 97, 100, 97, 116, 97, 62, 111, 108, 100, 60, 47,
       109, 101, 116, 97, 100, 97, 116, 97, 62, 60, 47, 115, 118, 103, 62 >>

\* "<svg><metadata>a</metadata><metadata>b</metadata></svg>"
SvgTwoElements ==
    << 60, 115, 118, 103, 62, 60, 109, 101, 116, 97, 100, 97, 116, 97, 62, 97, 60, 47, 109, 101,
       116, 97, 100, 97, 116, 97, 62, 60, 109, 101, 116, 97, 100, 97, 116, 97, 62, 98, 60, 47, 109,
       101, 116, 97, 100, 97, 116, 97, 62, 60, 47, 115, 118, 103, 62 >>

\* "<svg><metadata></svg>"
SvgUnclosedMetadata ==
    << 60, 115, 118, 103, 62, 60, 109, 101, 116, 97, 100, 97, 116, 97, 62, 60, 47, 115, 118, 103,
       62 >>

\* "<svg>"
SvgNoCloseTag ==
    << 60, 115, 118, 103, 62 >>

\* "<svg></svg></svg>"
SvgTwoCloseTags ==
    << 60, 115, 118, 103, 62, 60, 47, 115, 118, 103, 62, 60, 47, 115, 118, 103, 62 >>

\* EF BB BF "<svg>", C3 A9 (e acute), "</svg>"
SvgBomLatin ==
    << 239, 187, 191, 60, 115, 118, 103, 62, 195, 169, 60, 47, 115, 118, 103, 62 >>

\* "<svg>", the byte FF, "</svg>"
SvgInvalidByte ==
    << 60, 115, 118, 103, 62, 255, 60, 47, 115, 118, 103, 62 >>

\* "%!PS-Adobe-3.0\r\n%%BoundingBox: 0 0 1 1\n%%EndComments\nshowpage\n"
EpsWithEndComments ==
    << 37, 33, 80, 83, 45, 65, 100, 111, 98, 101, 45, 51, 46, 48, 13, 10, 37, 37, 66, 111, 117,
       110, 100, 105, 110, 103, 66, 111, 120, 58, 32, 48, 32, 48, 32, 49, 32, 49, 10, 37, 37, 69,
       110, 100, 67, 111, 109, 109, 101, 110, 116, 115, 10, 115, 104, 111, 119, 112, 97, 103, 101,
       10 >>

\* "%%EndComments\n", the bytes 00 FF 80, "%%EndComments\n"
EpsTwoEndComments ==
    << 37, 37, 69, 110, 100, 67, 111, 109, 109, 101, 110, 116, 115, 10, 0, 255, 128, 37, 37, 69,
       110, 100, 67, 111, 109, 109, 101, 110, 116, 115, 10 >>

\* "%!PS-Adobe-3.0\nshowpage\n"
EpsHeaderLf ==
    << 37, 33, 80, 83, 45, 65, 100, 111, 98, 101, 45, 51, 46, 48, 10, 115, 104, 111, 119, 112, 97,
       103, 101, 10 >>

\* "%!PS-Adobe-3.0\rshowpage\r"
EpsHeaderCr ==
    << 37, 33, 80, 83, 45, 65, 100, 111, 98, 101, 45, 51, 46, 48, 13, 115, 104, 111, 119, 112, 97,
       103, 101, 13 >>

\* "%!PS-Adobe-3.0\r\nshowpage\r\n"
EpsHeaderCrLf ==
    << 37, 33, 80, 83, 45, 65, 100, 111, 98, 101, 45, 51, 46, 48, 13, 10, 115, 104, 111, 119, 112,
       97, 103, 101, 13, 10 >>

\* "%!PS-Adobe-3.0\r"
EpsHeaderCrAtEnd ==
    << 37, 33, 80, 83, 45, 65, 100, 111, 98, 101, 45, 51, 46, 48, 13 >>

\* "%!PS-Adobe-3.0"
EpsHeaderOnly ==
    << 37, 33, 80, 83, 45, 65, 100, 111, 98, 101, 45, 51, 46, 48 >>

\* the bytes 00 01, "%!PS-Adobe-2.0 EPSF\nx"
EpsHeaderLate ==
    << 0, 1, 37, 33, 80, 83, 45, 65, 100, 111, 98, 101, 45, 50, 46, 48, 32, 69, 80, 83, 70, 10, 120 >>

\* "showpage\n"
EpsNoHeader ==
    << 115, 104, 111, 119, 112, 97, 103, 101, 10 >>

\* an 8-byte ftyp box
VideoFtyp ==
    << 0, 0, 0, 8, 102, 116, 121, 112 >>

\* "<svg></svg >": an end tag with white space before its ">"
SvgCloseSpaced ==
    << 60, 115, 118, 103, 62, 60, 47, 115, 118, 103, 32, 62 >>

\* "<svg/>": an empty root element
SvgSelfClosed ==
    << 60, 115, 118, 103, 47, 62 >>

\* "</svg"
SvgCloseStart ==
    << 60, 47, 115, 118, 103 >>

(***************************************************************************)
(* Numbers.  A JavaScript Number is an IEEE 754 double; the model holds    *)
(* +0, +Infinity and the positive normal doubles, the latter as their 53   *)
(* significand bits (most significant first, the first of them 1) and a    *)
(* binary exponent: the value is significand * 2^exp.  Every operation     *)
(* rounds to nearest, ties to even, as the arithmetic of the engine does.  *)
(***************************************************************************)
Bit == {0, 1}

Double == [kind : {"zero", "inf", "num"}, bits : Seq(Bit), exp : Int]

Zero == [kind |-> "zero", bits |-> << >>, exp |-> 0]

Infinity == [kind |-> "inf", bits |-> << >>, exp |-> 0]

Num(bits, exp) == [kind |-> "num", bits |-> bits, exp |-> exp]

\* the binary digits of n >= 0, most significant first
RECURSIVE BitsOf(_)
BitsOf(n) == IF n < 2 THEN <<n>> ELSE BitsOf(n \div 2) \o <<n % 2>>

\* the k binary digits of v < 2^k, most significant first
Digits(v, k) == [i \in 1..k |-> (v \div 2^(k - i)) % 2]

\* the number a bit sequence spells
IntOf[b \in Seq(Bit)] ==
    IF Len(b) = 0 THEN 0 ELSE 2 * IntOf[SubSeq(b, 1, Len(b) - 1)] + b[Len(b)]

Zeros(k) == [i \in 1..k |-> 0]

\* a bit sequence without its leading zeros
StripZeros[b \in Seq(Bit)] == IF Len(b) = 0 \/ b[1] = 1 THEN b ELSE StripZeros[Tail(b)]

\* b + 1; one bit longer when b is all ones
Increment[b \in Seq(Bit)] ==
    IF \A i \in 1..Len(b) : b[i] = 1 THEN <<1>> \o Zeros(Len(b))
    ELSE LET k == CHOOSE i \in 1..Len(b) : b[i] = 0 /\ \A j \in (i + 1)..Len(b) : b[j] = 1
         IN  SubSeq(b, 1, k - 1) \o <<1>> \o Zeros(Len(b) - k)

\* the double nearest to b * 2^exp (plus a nonzero fraction of the last place
\* when sticky), b being a bit sequence that starts with 1
RoundToDouble[b \in Seq(Bit), sticky \in BOOLEAN, exp \in Int] ==
    IF Len(b) <= 53 THEN Num(b \o Zeros(53 - Len(b)), exp - (53 - Len(b)))
    ELSE LET m == SubSeq(b, 1, 53)
             up == /\ b[54] = 1
                   /\ (sticky \/ m[53] = 1 \/ \E i \in 55..Len(b) : b[i] = 1)
             e == exp + Len(b) - 53
         IN  IF ~up THEN Num(m, e)
             ELSE IF \A i \in 1..53 : m[i] = 1 THEN Num(<<1>> \o Zeros(52), e + 1)
             ELSE Num(Increment[m], e)

\* an integer n >= 0 as a double
FromInt(n) == IF n = 0 THEN Zero ELSE RoundToDouble[BitsOf(n), FALSE, 0]

\* n / 2^j as a double
Dyadic(n, j) == IF n = 0 THEN Zero ELSE RoundToDouble[BitsOf(n), FALSE, -j]

\* long division of a bit sequence by w < 2^20, ten bits at a time, from bit
\* i on with remainder rem: the quotient's bits, then one more bit that tells
\* whether a remainder is left
LongDivision[n \in Seq(Bit), w \in Nat, i \in Nat, rem \in Nat] ==
    IF i > Len(n) THEN <<IF rem = 0 THEN 0 ELSE 1>>
    ELSE Digits((1024 * rem + IntOf[SubSeq(n, i, i + 9)]) \div w, 10)
             \o LongDivision[n, w, i + 10, (1024 * rem + IntOf[SubSeq(n, i, i + 9)]) % w]

RatioOf[a \in Nat, w \in Nat] ==
    LET d == LongDivision[Digits(a, 20) \o Zeros(80), w, 1, 0]
    IN  RoundToDouble[StripZeros[SubSeq(d, 1, 100)], d[101] = 1, -80]

\* a / w for integers 1 <= a < 2^20, 1 <= w < 2^20: the quotient of two
\* exactly represented numbers, and the value of a decimal literal such as
\* 0.35 = 35/100
Ratio(a, w) == RatioOf[a, w]

\* the product of an integer n < 2^20 and a bit sequence, ten bits at a time,
\* from bit i down
TimesBits[n \in Nat, b \in Seq(Bit), i \in Nat, carry \in Nat] ==
    IF i = 0 THEN (IF carry = 0 THEN << >> ELSE BitsOf(carry))
    ELSE TimesBits[n, b, i - 10, (IntOf[SubSeq(b, i - 9, i)] * n + carry) \div 1024]
             \o Digits((IntOf[SubSeq(b, i - 9, i)] * n + carry) % 1024, 10)

TimesOf[x \in Double, y \in Double] ==
    IF x.kind = "zero" \/ y.kind = "zero" THEN Zero
    ELSE IF x.kind = "inf" \/ y.kind = "inf" THEN Infinity
    ELSE RoundToDouble[StripZeros[TimesBits[IntOf[SubSeq(x.bits, 1, 20)],
                                            Zeros(7) \o y.bits, 60, 0]],
                       FALSE, x.exp + 33 + y.exp]

\* x * y, for an x whose significand has at most 20 significant bits (every
\* size in pixels and every duration of the model)
Times(x, y) == TimesOf[x, y]

LessOf[x \in Double, y \in Double] ==
    IF x.kind = "inf" \/ y.kind = "zero" THEN FALSE
    ELSE IF y.kind = "inf" \/ x.kind = "zero" THEN TRUE
    ELSE \/ x.exp < y.exp
         \/ /\ x.exp = y.exp
            /\ \E i \in 1..53 : /\ x.bits[i] < y.bits[i]
                                /\ \A j \in 1..(i - 1) : x.bits[j] = y.bits[j]

\* x < y
Less(x, y) == LessOf[x, y]

MathMinOf[x \in Double, y \in Double] == IF LessOf[y, x] THEN y ELSE x

\* Math.min(x, y)
MathMin(x, y) == MathMinOf[x, y]

MathFloorOf[x \in Double] ==
    IF x.kind = "zero" \/ 53 + x.exp <= 0 THEN 0
    ELSE IF x.exp <= 0 THEN IntOf[SubSeq(x.bits, 1, 53 + x.exp)]
    ELSE IntOf[x.bits \o Zeros(x.exp)]

\* Math.floor(x) for 0 <= x < 2^31
MathFloor(x) == MathFloorOf[x]

(***************************************************************************)
(* Metadata records handed to the injectors.                               *)
(***************************************************************************)
\* code units used in generated text: a & < > $
TextUnits == {97, 38, 60, 62, 36}

Texts(n) == UNION {[1..k -> TextUnits] : k \in 0..n}

\* keywords "a" and "&<"
KeywordPool == {<<97>>, <<38, 60>>}

KeywordLists == UNION {[1..k -> KeywordPool] : k \in 0..MaxKeywords}

Meta(t, d, k) == [title |-> t, description |-> d, keywords |-> k]

\* title "a", description "d", keywords "a", "a"
MetaPlain == Meta(<<97>>, <<100>>, <<(<<97>>), (<<97>>)>>)

\* title "a&<", description ">", keywords "&", "a"
MetaEscapes == Meta(<<97, 38, 60>>, <<62>>, <<(<<38>>), (<<97>>)>>)

\* title "$$", description "$&", keyword "$1"
MetaDollar == Meta(<<36, 36>>, <<36, 38>>, <<(<<36, 49>>)>>)

\* title U+00E9, nothing else
MetaLatin == Meta(<<233>>, << >>, << >>)

\* title U+2014 (outside Latin-1), nothing else
MetaDash == Meta(<<8212>>, << >>, << >>)

\* a title of LongTitleLen ampersands
MetaLong == Meta(Repeat(38, LongTitleLen), << >>, << >>)

SampleMetadata == {MetaPlain, MetaEscapes, MetaDollar, MetaLatin, MetaDash}

GeneratedMetadata ==
    {Meta(t, << >>, << >>) : t \in Texts(MaxTextLen)}
        \cup {Meta(<<97>>, d, k) : d \in Texts(MaxTextLen), k \in KeywordLists}

(***************************************************************************)
(* Files: a MIME type, a name, the bytes, and whether the browser can read *)
(* them (a FileReader error or a rejected file.text() otherwise).          *)
(***************************************************************************)
File(t, n, d, r) == [type |-> t, name |-> n, data |-> d, readable |-> r]

DispatchTypes ==
    {MimeJpeg, MimePng, MimeSvg, MimePostscript, MimeMp4, MimeQuicktime, MimeGif, << >>}

DispatchNames ==
    {NameJpg, NameJpeg, NameJpgUpper, NamePng, NameSvg, NameEps, NameMp4, NameMovUpper,
     NameGif, NameNoDot, NameTxt}

DispatchFiles == {File(t, n, <<120>>, TRUE) : t \in DispatchTypes, n \in DispatchNames}

JpegContents ==
    {JpegMinimal, JpegWithExif, JpegScanOnly, JpegStub, JpegTruncated, PngSignatureOnly, << >>}

JpegFiles ==
    {File(MimeJpeg, NameJpg, d, TRUE) : d \in JpegContents}
        \cup {File(<< >>, NameJpg, JpegMinimal, TRUE), File(MimeJpeg, NameJpg, JpegMinimal, FALSE)}

PngContents ==
    {PngMinimal, PngHeaderOnly, PngSignatureOnly, PngNoIhdr, <<137, 80>>, <<137>>, JpegStub, << >>,
     <<137, 78, 71>>, <<80, 137, 80>>}

PngFiles ==
    {File(MimePng, NamePng, d, TRUE) : d \in PngContents}
        \cup {File(MimePng, NamePng, PngMinimal, FALSE)}

SvgContents ==
    {SvgPlain, SvgWithMetadata, SvgTwoElements, SvgUnclosedMetadata, SvgNoCloseTag,
     SvgTwoCloseTags, SvgBomLatin, SvgInvalidByte, << >>, SvgCloseSpaced, SvgSelfClosed}

SvgFiles ==
    {File(MimeSvg, NameSvg, d, TRUE) : d \in SvgContents}
        \cup {File(MimeSvg, NameSvg, SvgPlain, FALSE)}

\* the header line is followed by 300 bytes without a line terminator
EpsLongLine == PsAdobeToken \o Repeat(120, 300) \o <<10>>

\* the header starts at offset 1014 and ends at offset 1024
EpsHeaderAtLimit == Repeat(120, 1014) \o EpsHeaderLf

\* the header starts at offset 1015 and ends at offset 1025
EpsHeaderPastLimit == Repeat(120, 1015) \o EpsHeaderLf

\* a CR is the last byte of the scan window and a LF the first byte after it
EpsPairAcrossWindow == PsAdobeToken \o Repeat(120, 245) \o <<13, 10, 120>>

EpsContents ==
    {EpsWithEndComments, EpsTwoEndComments, EpsHeaderLf, EpsHeaderCr, EpsHeaderCrLf,
     EpsHeaderCrAtEnd, EpsHeaderOnly, EpsHeaderLate, EpsNoHeader, EpsLongLine,
     EpsHeaderAtLimit, EpsHeaderPastLimit, EpsPairAcrossWindow, << >>}

EpsFiles ==
    {File(MimePostscript, NameEps, d, TRUE) : d \in EpsContents}
        \cup {File(<< >>, NameEps, EpsHeaderLf, TRUE),
              File(MimePostscript, NameEps, EpsHeaderLf, FALSE)}

VideoFiles ==
    {File(MimeMp4, NameMp4, VideoFtyp, TRUE), File(<< >>, NameMovUpper, << >>, TRUE)}

\* the calls whose output is handed to the injector a second time, and the
\* metadata of the second call (the metadata of the first call is tried as well)
ReapplyContents ==
    {JpegMinimal, JpegWithExif, PngMinimal, SvgPlain, SvgWithMetadata, EpsWithEndComments,
     VideoFtyp}

ReapplyInputs ==
    ({f \in JpegFiles \cup PngFiles \cup SvgFiles \cup EpsFiles \cup VideoFiles :
          f.data \in ReapplyContents /\ f.readable /\ f.type # << >>}
         \X {MetaPlain, MetaEscapes})
        \cup ({File(MimeJpeg, NameJpg, JpegMinimal, TRUE)} \X {MetaLong})

ReapplyMetadata == {MetaPlain, MetaDollar}

Inputs ==
    (DispatchFiles \X {MetaPlain})
        \cup ((JpegFiles \cup PngFiles \cup SvgFiles \cup EpsFiles \cup VideoFiles)
                  \X SampleMetadata)
        \cup ({File(MimeJpeg, NameJpg, JpegMinimal, TRUE)} \X {MetaLong})
        \cup ({File(MimeMp4, NameMp4, VideoFtyp, TRUE)} \X GeneratedMetadata)

(***************************************************************************)
(* Preparation for analysis: the configuration and the input files of      *)
(* fileToBase64.                                                           *)
(***************************************************************************)
SAFETY_THRESHOLD_BYTES == 9 * 1024 * 1024

RESIZE_MAX_DIMENSION == 3840

MAX_VIDEO_FRAME_DIM == 800

\* ".avi"
ExtAvi == << 46, 97, 118, 105 >>

\* ".webm"
ExtWebm == << 46, 119, 101, 98, 109 >>

\* file names: "a.avi"
NameAvi == << 97, 46, 97, 118, 105 >>

\* "A.WEBM"
NameWebmUpper == << 65, 46, 87, 69, 66, 77 >>

\* what the browser finds in a file: whether a FileReader can read it, whether
\* the image or video decoder accepts it, and the pixel size and the duration
\* the decoder reports
Media(readable, decodable, width, height, duration) ==
    [readable |-> readable, decodable |-> decodable, width |-> width, height |-> height,
     duration |-> duration]

PrepFile(type, name, size, media) ==
    [type |-> type, name |-> name, size |-> size, media |-> media]

\* native video sizes: common ones, sizes at and around the cap, a portrait
\* one, extreme aspect ratios
VideoSizes ==
    {<<1920, 1080>>, <<1080, 1920>>, <<4096, 2160>>, <<854, 480>>, <<640, 480>>,
     <<800, 800>>, <<800, 600>>, <<801, 800>>, <<1078, 1078>>, <<1156, 578>>,
     <<537, 895>>, <<2000, 3>>, <<1, 801>>, <<1, 1>>}

\* durations in seconds: 10, 1, 3, 7.5, 0.25, 59.9375, 3600, 0 and the
\* Infinity a stream without a known end reports
Durations ==
    {FromInt(10), FromInt(1), FromInt(3), Dyadic(15, 1), Dyadic(1, 2), Dyadic(959, 4),
     FromInt(3600), Zero, Infinity}

VideoMedia ==
    {Media(TRUE, TRUE, s[1], s[2], FromInt(10)) : s \in VideoSizes}
        \cup {Media(TRUE, TRUE, 1920, 1080, d) : d \in Durations}
        \cup {Media(TRUE, FALSE, 0, 0, Zero)}

\* the type and the name of the files the video branch takes
VideoKinds ==
    {<<MimeMp4, NameMp4>>, << << >>, NameMovUpper>>, << << >>, NameAvi>>,
     <<MimePng, NameWebmUpper>>, <<MimeQuicktime, NameGif>>}

VideoUploads ==
    {PrepFile(MimeMp4, NameMp4, 5000000, m) : m \in VideoMedia}
        \cup {PrepFile(k[1], k[2], 5000000, Media(TRUE, TRUE, 1920, 1080, FromInt(10))) :
                  k \in VideoKinds}

\* image sizes in bytes, at and around the threshold
ImageBytes ==
    {1, SAFETY_THRESHOLD_BYTES - 1, SAFETY_THRESHOLD_BYTES, SAFETY_THRESHOLD_BYTES + 1,
     20 * 1024 * 1024}

\* image sizes in pixels, at and around the 4K cap
ImageSizes ==
    {<<640, 480>>, <<3840, 3840>>, <<3841, 2000>>, <<2000, 3841>>, <<8000, 6000>>,
     <<6000, 4000>>, <<1, 4000>>, <<5000, 1>>}

ImageMedia ==
    {Media(TRUE, TRUE, s[1], s[2], Zero) : s \in ImageSizes}
        \cup {Media(TRUE, FALSE, 0, 0, Zero), Media(FALSE, FALSE, 0, 0, Zero)}

ImageUploads ==
    {PrepFile(MimeJpeg, NameJpg, n, m) : n \in ImageBytes, m \in ImageMedia}
        \cup {PrepFile(MimePng, NamePng, n, Media(TRUE, TRUE, 8000, 6000, Zero)) :
                  n \in ImageBytes}

PrepFiles == VideoUploads \cup ImageUploads

(***************************************************************************)
(* The state machine: one call embedMetadata(file, metadata).              *)
(*                                                                         *)
(*   file, metadata  the arguments of the call                             *)
(*   pc              "call", then the injector that was entered, and       *)
(*                   "done" once its handler has run                       *)
(*   route           the injector chosen by the dispatcher ("" before the  *)
(*                   dispatch, "none" for the fallback)                    *)
(*   result          the returned promise: pending, resolved with a Blob   *)
(*                   (bytes, type, isInput = the input File object itself) *)
(*                   or rejected                                           *)
(*   uncaught        an exception left an event handler, so nothing will   *)
(*                   settle the promise any more                           *)
(*   outcome         the branch the handler took                           *)
(*   xmp             the XMP packet the handler generated (<< >> if none)  *)
(*   piece           the bytes the handler built to insert: the APP1       *)
(*                   segment, fullChunk, packetBytes, the uuid box         *)
(*   insertIndex     the insertion offset the handler computed (-1 if none)*)
(*   fileBytes       the JPEG injector's bytes after the EXIF step         *)
(*   pass            1 for the first call; 2 once the Blob the first call  *)
(*                   returned has been handed to the same injector again   *)
(*   firstInput      the bytes of the file of the first call               *)
(*                                                                         *)
(* and one call fileToBase64(file), which prepares a file for analysis:    *)
(*                                                                         *)
(*   prepFile        the argument of the call: type, name and size, and    *)
(*                   what its content is to the browser (media: whether it *)
(*                   can be read and decoded, its pixel size, its duration)*)
(*   prepPc          "call"; "videoLoading" and "seeking" in               *)
(*                   videoToStoryboardBase64; "reading" and "imgLoading"   *)
(*                   in the image branch; "done" once the promise settled  *)
(*   prepResult      the returned promise: pending, resolved with a        *)
(*                   payload or rejected with an error                     *)
(*   prepOutcome     the branch that settled the promise                   *)
(*   video           the video element: currentTime and the number of      *)
(*                   'seeked' listeners registered on it                   *)
(*   frame           the width and height computed for one frame (for the  *)
(*                   resized image in smartCompressImage)                  *)
(*   timePoints      the four capture timestamps                           *)
(*   canvas          the canvas: its size and the drawImage calls made     *)
(*   captures        the seeks issued, the draws made and the encoding, in *)
(*                   the order they happened                               *)
(*   stalled         the element will not dispatch another event           *)
(***************************************************************************)
VARIABLES file, metadata, pc, route, result, uncaught, outcome, xmp, piece, insertIndex,
          fileBytes, pass, firstInput,
          prepFile, prepPc, prepResult, prepOutcome, video, frame, timePoints, canvas,
          captures, stalled

\* one call findBinarySequence(haystack, pattern, limit): its arguments
\* (findLimit = 0 for a call without the third argument), "call" or "done",
\* and the value returned
VARIABLES findHaystack, findPattern, findLimit, findPc, findResult

\* the generate-metadata function and the profiles table it bills:
\*   credits         the credits column of the user's row
\*   initialCredits  its value before any request (never changes)
\*   KEYS            how many keys each provider pool holds
\*   requests        the requests of the user being served, each with its
\*                   body (action, mimeType), whether its token is valid,
\*                   the position reached in serve (pc), the locals cost,
\*                   profile, result and lastError, the pool and key of the
\*                   provider call awaited, the response sent, and what it
\*                   did to the row (charged, refunded) and whether a
\*                   database call of it failed (fault)
VARIABLES credits, initialCredits, KEYS, requests

\* one call invokeWithRetry(action, payload):
\*   retryPc      "invoking" while supabase.functions.invoke is awaited,
\*                "waiting" while the one-second timer is awaited,
\*                "returned" or "thrown" once the call has ended
\*   attempt      the loop variable i
\*   now          the time in milliseconds since the call
\*   timerDue     the time at which the timer set by the catch may fire
\*   invocations  the invocations made: when each started and ended, and
\*                what it gave
\*   retryResult  the value returned or the error thrown, and when
VARIABLES retryPc, attempt, now, timerDue, invocations, retryResult

\* the App component in batch view:
\*   files         the status of each file in the list, as rendered ("NONE"
\*                 for an id that is not in the list)
\*   processQueue  the queue of ids, as rendered
\*   activeCount   the counter, as rendered
\*   baseState     the three states with every processed update applied
\*                 (what the next render starts from), and the ids that
\*                 left the queue without being passed to processImage
\*   updateQueue   the state updates enqueued and not yet processed, each
\*                 with the priority of the context that enqueued it
\*   effectPending the queue processor effect of the last render has not
\*                 run yet
\*   inflight      per file, the processImage calls awaiting fileToBase64,
\*                 generateImageMetadata and embedMetadata
VARIABLES files, processQueue, activeCount, baseState, updateQueue, effectPending,
          inflight

embedVars ==
    <<file, metadata, pc, route, result, uncaught, outcome, xmp, piece, insertIndex,
      fileBytes, pass, firstInput>>

prepVars ==
    <<prepFile, prepPc, prepResult, prepOutcome, video, frame, timePoints, canvas,
      captures, stalled>>

findVars == <<findHaystack, findPattern, findLimit, findPc, findResult>>

fnVars == <<credits, initialCredits, KEYS, requests>>

retryVars == <<retryPc, attempt, now, timerDue, invocations, retryResult>>

appVars ==
    <<files, processQueue, activeCount, baseState, updateQueue, effectPending, inflight>>

vars == <<embedVars, prepVars, findVars, fnVars, retryVars, appVars>>

\* what the actions of one machine leave alone
notEmbed == <<prepVars, findVars, fnVars, retryVars, appVars>>

notPrep == <<embedVars, findVars, fnVars, retryVars, appVars>>

notFind == <<embedVars, prepVars, fnVars, retryVars, appVars>>

notFn == <<embedVars, prepVars, findVars, retryVars, appVars>>

notRetry == <<embedVars, prepVars, findVars, fnVars, appVars>>

notApp == <<embedVars, prepVars, findVars, fnVars, retryVars>>

Pending == [status |-> "pending", bytes |-> << >>, type |-> << >>, isInput |-> FALSE]

\* resolve(file) and `return file`: the promise settles with the input File itself
ResolveFile == [status |-> "resolved", bytes |-> file.data, type |-> file.type, isInput |-> TRUE]

\* resolve(new Blob([...], { type }))
ResolveBlob(bytes, type) ==
    [status |-> "resolved", bytes |-> bytes, type |-> type, isInput |-> FALSE]

Rejected == [status |-> "rejected", bytes |-> << >>, type |-> << >>, isInput |-> FALSE]

\* a || b on strings
OrElse(a, b) == IF a # << >> THEN a ELSE b

\* payloads: none; the empty string; the base64 text of the file's own bytes;
\* the base64 text of a JPEG encoded from a canvas of some size with some
\* drawImage calls made on it
Payload(kind, width, height, drawn) ==
    [kind |-> kind, width |-> width, height |-> height, drawn |-> drawn]

NoPayload == Payload("none", 0, 0, << >>)

\* the promise fileToBase64 returns
PrepPending == [status |-> "pending", payload |-> NoPayload, error |-> ""]

PrepResolved(payload) == [status |-> "resolved", payload |-> payload, error |-> ""]

PrepRejected(error) == [status |-> "rejected", payload |-> NoPayload, error |-> error]

\* a video element with no seek asked for and no 'seeked' listener (onSeek is
\* the index of the capture whose listener is registered)
NoVideo == [currentTime |-> Zero, onSeek |-> -1]

NoCanvas == [width |-> 0, height |-> 0, drawn |-> << >>]

NoFrame == [width |-> 0, height |-> 0]

\* no call of fileToBase64 is under way
PrepIdle ==
    /\ prepFile = PrepFile(<< >>, << >>, 0, Media(FALSE, FALSE, 0, 0, Zero))
    /\ prepPc = "idle"
    /\ prepResult = PrepPending
    /\ prepOutcome = ""
    /\ video = NoVideo
    /\ frame = NoFrame
    /\ timePoints = << >>
    /\ canvas = NoCanvas
    /\ captures = << >>
    /\ stalled = FALSE

\* no call of embedMetadata is under way
EmbedIdle ==
    /\ file = File(<< >>, << >>, << >>, TRUE)
    /\ metadata = MetaPlain
    /\ pc = "idle"
    /\ route = ""
    /\ result = Pending
    /\ uncaught = FALSE
    /\ outcome = ""
    /\ xmp = << >>
    /\ piece = << >>
    /\ insertIndex = -1
    /\ fileBytes = << >>
    /\ pass = 1
    /\ firstInput = << >>

\* no call of findBinarySequence is under way
FindIdle ==
    /\ findHaystack = << >>
    /\ findPattern = << >>
    /\ findLimit = 0
    /\ findPc = "idle"
    /\ findResult = -1

\* the function is serving nothing
FnIdle ==
    /\ credits = 0
    /\ initialCredits = 0
    /\ KEYS = [GEMINI |-> 0, OPENAI |-> 0]
    /\ requests = << >>

NoOutcome == [kind |-> "", value |-> ""]

\* no call of invokeWithRetry is under way
RetryIdle ==
    /\ retryPc = "idle"
    /\ attempt = 0
    /\ now = 0
    /\ timerDue = 0
    /\ invocations = << >>
    /\ retryResult = [outcome |-> NoOutcome, at |-> 0]

\* the component is not mounted
AppIdle ==
    /\ files = << >>
    /\ processQueue = << >>
    /\ activeCount = 0
    /\ baseState = << >>
    /\ updateQueue = << >>
    /\ effectPending = FALSE
    /\ inflight = << >>

Init ==
    /\ \E input \in Inputs :
           /\ file = input[1]
           /\ metadata = input[2]
           /\ firstInput = input[1].data
    /\ pass = 1
    /\ pc = "call"
    /\ route = ""
    /\ result = Pending
    /\ uncaught = FALSE
    /\ outcome = ""
    /\ xmp = << >>
    /\ piece = << >>
    /\ insertIndex = -1
    /\ fileBytes = << >>
    /\ PrepIdle
    /\ FindIdle
    /\ FnIdle
    /\ RetryIdle
    /\ AppIdle

\* a dispatcher that does not know the .mov extension
RouteWithoutMov(type, name) ==
    IF type = MimeJpeg \/ EndsWith(name, ExtJpg) \/ EndsWith(name, ExtJpeg) THEN "jpeg"
    ELSE IF type = MimePng \/ EndsWith(name, ExtPng) THEN "png"
    ELSE IF type = MimeSvg \/ EndsWith(name, ExtSvg) THEN "svg"
    ELSE IF EndsWith(name, ExtEps) THEN "eps"
    ELSE IF StartsWith(type, VideoPrefix) \/ EndsWith(name, ExtMp4) THEN "video"
    ELSE "none"

\* the chain of tests in embedMetadata, on the lowercased type and name
Route(type, name) ==
    IF type = MimeJpeg \/ EndsWith(name, ExtJpg) \/ EndsWith(name, ExtJpeg) THEN "jpeg"
    ELSE IF type = MimePng \/ EndsWith(name, ExtPng) THEN "png"
    ELSE IF type = MimeSvg \/ EndsWith(name, ExtSvg) THEN "svg"
    ELSE IF EndsWith(name, ExtEps) THEN "eps"
    ELSE IF StartsWith(type, VideoPrefix) \/ EndsWith(name, ExtMp4) \/ EndsWith(name, ExtMov)
         THEN "video"
    ELSE "none"

Locals(o, x, p, i, b) ==
    /\ outcome' = o
    /\ xmp' = x
    /\ piece' = p
    /\ insertIndex' = i
    /\ fileBytes' = b

\* embedMetadata: route the file, or return it as it is
embedMetadata ==
    /\ pc = "call"
    /\ LET type == toLowerCase(file.type)
           name == toLowerCase(file.name)
           chosen == Route(type, name)
       IN  /\ route' = chosen
           /\ IF chosen = "none"
              THEN /\ pc' = "done"
                   /\ result' = ResolveFile
                   /\ Locals("fallback", << >>, << >>, -1, << >>)
              ELSE /\ pc' = chosen
                   /\ result' = result
                   /\ UNCHANGED <<outcome, xmp, piece, insertIndex, fileBytes>>
    /\ UNCHANGED <<file, metadata, uncaught, pass, firstInput>>
    /\ UNCHANGED notEmbed

\* embedMetadataInJpeg: reader.onload
JpegOnload ==
    /\ pc = "jpeg"
    /\ file.readable
    /\ LET jpegDataUrl == readAsDataURL(file)
           exifBytes == PiexifDump(metadata)
           inserted == PiexifInsert(exifBytes, jpegDataUrl)
           bytes == atob(AfterComma(inserted.url))
           xmpStr == generateXmpPacket(metadata, MimeJpeg)
           xmpBytes == TextEncode(xmpStr)
           app1Segment == JpegApp1Segment(xmpBytes)
       IN  IF inserted.threw
           THEN /\ result' = ResolveFile
                /\ Locals("jpegCaught", << >>, << >>, -1, << >>)
           ELSE IF JpegHasSoi(bytes)
           THEN /\ result' = ResolveBlob(JpegSplice(bytes, app1Segment), MimeJpeg)
                /\ Locals("jpegSpliced", xmpStr, app1Segment, 2, bytes)
           ELSE /\ result' = ResolveBlob(bytes, MimeJpeg)
                /\ Locals("jpegExifOnly", xmpStr, app1Segment, -1, bytes)
    /\ pc' = "done"
    /\ UNCHANGED <<file, metadata, route, uncaught, pass, firstInput>>
    /\ UNCHANGED notEmbed

\* reader.onerror of the JPEG, EPS and PNG injectors: resolve(file)
ReaderOnerror ==
    /\ pc \in {"jpeg", "eps", "png"}
    /\ ~file.readable
    /\ result' = ResolveFile
    /\ Locals("readError", << >>, << >>, -1, << >>)
    /\ pc' = "done"
    /\ UNCHANGED <<file, metadata, route, uncaught, pass, firstInput>>
    /\ UNCHANGED notEmbed

\* embedMetadataInSvg after `await file.text()` has produced the text
SvgInject ==
    /\ pc = "svg"
    /\ file.readable
    /\ LET text == BlobText(file.data)
           xmpStr == generateXmpPacket(metadata, MimeSvg)
           newSvgContent == SvgContent(text, xmpStr)
       IN  /\ result' = ResolveBlob(TextEncode(newSvgContent), MimeSvg)
           /\ Locals("svgInjected", xmpStr, newSvgContent, -1, << >>)
    /\ pc' = "done"
    /\ UNCHANGED <<file, metadata, route, uncaught, pass, firstInput>>
    /\ UNCHANGED notEmbed

\* embedMetadataInSvg when file.text() rejects: the await throws in the async
\* function, which has no try/catch, so its promise rejects
SvgTextRejected ==
    /\ pc = "svg"
    /\ ~file.readable
    /\ result' = Rejected
    /\ Locals("svgRejected", << >>, << >>, -1, << >>)
    /\ pc' = "done"
    /\ UNCHANGED <<file, metadata, route, uncaught, pass, firstInput>>
    /\ UNCHANGED notEmbed

\* embedMetadataInEps: reader.onload
EpsOnload ==
    /\ pc = "eps"
    /\ file.readable
    /\ LET data == file.data
           index == EpsInsertIndex(data)
           xmpStr == generateXmpPacket(metadata, MimePostscript)
           packetBytes == TextEncode(EpsPacketStr(xmpStr))
       IN  /\ result' = ResolveBlob(EpsSplice(data, index, packetBytes),
                                    OrElse(file.type, MimePostscript))
           /\ Locals("epsInjected", xmpStr, packetBytes, index, << >>)
    /\ pc' = "done"
    /\ UNCHANGED <<file, metadata, route, uncaught, pass, firstInput>>
    /\ UNCHANGED notEmbed

\* embedMetadataInPng: reader.onload, which has no try/catch
PngOnload ==
    /\ pc = "png"
    /\ file.readable
    /\ LET uint8 == file.data
           xmpStr == generateXmpPacket(metadata, MimePng)
           fullChunk == PngFullChunk(PngChunkData(TextEncode(xmpStr)))
       IN  IF PngSignatureMismatch(uint8)
           THEN /\ result' = ResolveFile
                /\ uncaught' = FALSE
                /\ Locals("pngNotPng", << >>, << >>, -1, << >>)
           ELSE IF PngSpliceFits(uint8, fullChunk)
           THEN /\ result' = ResolveBlob(PngSplice(uint8, fullChunk), MimePng)
                /\ uncaught' = FALSE
                /\ Locals("pngSpliced", xmpStr, fullChunk, insertPos, << >>)
           ELSE /\ result' = result
                /\ uncaught' = TRUE
                /\ Locals("pngThrew", xmpStr, fullChunk, insertPos, << >>)
    /\ pc' = "done"
    /\ UNCHANGED <<file, metadata, route, pass, firstInput>>
    /\ UNCHANGED notEmbed

\* embedMetadataInVideo: the Blob is [file, box], so the file is not read here
embedMetadataInVideo ==
    /\ pc = "video"
    /\ LET xmpStr == generateXmpPacket(metadata, OrElse(file.type, MimeMp4))
           box == VideoBox(TextEncode(xmpStr))
       IN  /\ result' = ResolveBlob(file.data \o box, file.type)
           /\ Locals("videoBoxed", xmpStr, box, Len(file.data), << >>)
    /\ pc' = "done"
    /\ UNCHANGED <<file, metadata, route, uncaught, pass, firstInput>>
    /\ UNCHANGED notEmbed

\* The caller hands the Blob an injector returned to the same injector again,
\* under the same file name, with the same or with other metadata.
Reapply ==
    /\ pc = "done"
    /\ pass = 1
    /\ result.status = "resolved"
    /\ route # "none"
    /\ <<file, metadata>> \in ReapplyInputs
    /\ \E again \in ReapplyMetadata \cup {metadata} :
           metadata' = again
    /\ file' = File(result.type, file.name, result.bytes, TRUE)
    /\ pc' = route
    /\ pass' = 2
    /\ result' = Pending
    /\ uncaught' = FALSE
    /\ Locals("", << >>, << >>, -1, << >>)
    /\ UNCHANGED <<route, firstInput>>
    /\ UNCHANGED notEmbed

Next ==
    \/ embedMetadata
    \/ JpegOnload
    \/ ReaderOnerror
    \/ SvgInject
    \/ SvgTextRejected
    \/ EpsOnload
    \/ PngOnload
    \/ embedMetadataInVideo
    \/ Reapply

Spec == Init /\ [][Next]_vars

(***************************************************************************)
(* fileToBase64: the storyboard of a video, the payload of an image.       *)
(***************************************************************************)
PrepInit ==
    /\ \E input \in PrepFiles : prepFile = input
    /\ prepPc = "call"
    /\ prepResult = PrepPending
    /\ prepOutcome = ""
    /\ video = NoVideo
    /\ frame = NoFrame
    /\ timePoints = << >>
    /\ canvas = NoCanvas
    /\ captures = << >>
    /\ stalled = FALSE
    /\ EmbedIdle
    /\ FindIdle
    /\ FnIdle
    /\ RetryIdle
    /\ AppIdle

\* file.type.startsWith('video/') || file.name.toLowerCase().match(/\.(mp4|mov|avi|webm)$/)
VideoTest(type, name) ==
    \/ StartsWith(type, VideoPrefix)
    \/ \E ext \in {ExtMp4, ExtMov, ExtAvi, ExtWebm} : EndsWith(toLowerCase(name), ext)

\* the error the video branch of fileToBase64 throws for whatever
\* videoToStoryboardBase64 rejected with
VideoFailure == "Failed to process video frames. File might be corrupt or format unsupported."

\* the edge that is not the longer one, scaled: other *= 800 / longer, then Math.floor
ScaledEdge(other, longer) ==
    MathFloor(Times(FromInt(other), Ratio(MAX_VIDEO_FRAME_DIM, longer)))

\* the size of one storyboard frame for a video of width x height
FrameSize(width, height) ==
    IF width > height
    THEN IF width > MAX_VIDEO_FRAME_DIM
         THEN [width |-> MAX_VIDEO_FRAME_DIM, height |-> ScaledEdge(height, width)]
         ELSE [width |-> width, height |-> height]
    ELSE IF height > MAX_VIDEO_FRAME_DIM
         THEN [width |-> ScaledEdge(width, height), height |-> MAX_VIDEO_FRAME_DIM]
         ELSE [width |-> width, height |-> height]

\* capture timestamps with the third one at 65% of the video
TimePointsLateThird(duration) ==
    <<Times(duration, Ratio(1, 10)), Times(duration, Ratio(35, 100)),
      Times(duration, Ratio(65, 100)), Times(duration, Ratio(85, 100))>>

\* [duration * 0.1, duration * 0.35, duration * 0.6, duration * 0.85]
TimePoints(duration) ==
    <<Times(duration, Ratio(1, 10)), Times(duration, Ratio(35, 100)),
      Times(duration, Ratio(6, 10)), Times(duration, Ratio(85, 100))>>

\* a grid filled column by column
GridPositionByColumn(index, width, height) ==
    [x |-> (index \div 2) * width, y |-> (index % 2) * height]

\* x = (index % 2) * width, y = Math.floor(index / 2) * height
GridPosition(index, width, height) ==
    [x |-> (index % 2) * width, y |-> (index \div 2) * height]

\* the size smartCompressImage gives the canvas for an image of width x height
ResizedSize(width, height) ==
    IF width > RESIZE_MAX_DIMENSION \/ height > RESIZE_MAX_DIMENSION
    THEN LET scale == MathMin(Ratio(RESIZE_MAX_DIMENSION, width),
                              Ratio(RESIZE_MAX_DIMENSION, height))
         IN  [width |-> MathFloor(Times(FromInt(width), scale)),
              height |-> MathFloor(Times(FromInt(height), scale))]
    ELSE [width |-> width, height |-> height]

EmptyText == Payload("empty", 0, 0, << >>)

OriginalPayload == Payload("original", 0, 0, << >>)

EncodedPayload(c) == Payload("jpeg", c.width, c.height, c.drawn)

\* canvas.toDataURL('image/jpeg', quality): "data:," for a canvas without
\* pixels, else a header, a comma and the base64 text
toDataURL(c) ==
    IF c.width = 0 \/ c.height = 0 THEN <<"data:", EmptyText>>
    ELSE <<"data:image/jpeg;base64", EncodedPayload(c)>>

\* url.split(',')[1]
PayloadOf(url) == url[2]

\* resizedDataUrl.length < 100: "data:," has 6 characters, the data URL of a
\* JPEG has its 23 characters of header and the base64 text of a whole file
TooSmall(url) == url[2] = EmptyText

Seek(index, time) == [op |-> "seek", index |-> index, time |-> time, x |-> 0, y |-> 0]

Draw(index, at) == [op |-> "draw", index |-> index, time |-> Zero, x |-> at.x, y |-> at.y]

Encode == [op |-> "encode", index |-> -1, time |-> Zero, x |-> 0, y |-> 0]

\* the call itself: the video test, then either the video element is created
\* and given the file, or a FileReader starts reading it
fileToBase64 ==
    /\ prepPc = "call"
    /\ prepPc' = IF VideoTest(prepFile.type, prepFile.name) THEN "videoLoading" ELSE "reading"
    /\ UNCHANGED <<prepFile, prepResult, prepOutcome, video, frame, timePoints, canvas,
                   captures, stalled>>
    /\ UNCHANGED notPrep

\* video.onloadedmetadata, up to the first await: the frame size, the
\* timestamps, the canvas, and the first captureFrame.  Assigning a
\* non-finite number to currentTime throws a TypeError, which the try block
\* catches.
VideoOnloadedmetadata ==
    /\ prepPc = "videoLoading"
    /\ ~stalled
    /\ prepFile.media.decodable
    /\ \E ctx \in BOOLEAN :
           LET size == FrameSize(prepFile.media.width, prepFile.media.height)
               points == TimePoints(prepFile.media.duration)
           IN  /\ frame' = size
               /\ timePoints' = points
               /\ canvas' = [width |-> size.width * 2, height |-> size.height * 2,
                             drawn |-> << >>]
               /\ IF ~ctx
                  THEN /\ prepResult' = PrepRejected(VideoFailure)
                       /\ prepOutcome' = "noContext"
                       /\ prepPc' = "done"
                       /\ UNCHANGED <<video, captures>>
                  ELSE IF points[1].kind = "inf"
                  THEN /\ prepResult' = PrepRejected(VideoFailure)
                       /\ prepOutcome' = "seekThrew"
                       /\ prepPc' = "done"
                       /\ UNCHANGED <<video, captures>>
                  ELSE /\ video' = [currentTime |-> points[1], onSeek |-> 0]
                       /\ captures' = <<Seek(0, points[1])>>
                       /\ prepPc' = "seeking"
                       /\ UNCHANGED <<prepResult, prepOutcome>>
    /\ UNCHANGED <<prepFile, stalled>>
    /\ UNCHANGED notPrep

\* video.onerror: the file cannot be loaded, or decoding fails during a seek
VideoOnerror ==
    /\ \/ prepPc = "videoLoading" /\ ~prepFile.media.decodable
       \/ prepPc = "seeking"
    /\ ~stalled
    /\ prepResult' = PrepRejected(VideoFailure)
    /\ prepOutcome' = "videoError"
    /\ prepPc' = "done"
    /\ UNCHANGED <<prepFile, video, frame, timePoints, canvas, captures, stalled>>
    /\ UNCHANGED notPrep

\* the 'seeked' listener of captureFrame and what its res() resumes: the next
\* captureFrame, or after the last one the encoding, resolve and the cleanup
OnSeek ==
    /\ prepPc = "seeking"
    /\ ~stalled
    /\ LET index == video.onSeek
           at == GridPosition(index, frame.width, frame.height)
           drawn == Append(canvas.drawn,
                           [x |-> at.x, y |-> at.y, width |-> frame.width,
                            height |-> frame.height, time |-> video.currentTime])
           painted == [canvas EXCEPT !.drawn = drawn]
       IN  /\ canvas' = painted
           /\ IF index + 1 < Len(timePoints)
              THEN /\ video' = [currentTime |-> timePoints[index + 2], onSeek |-> index + 1]
                   /\ captures' = captures \o <<Draw(index, at),
                                                Seek(index + 1, timePoints[index + 2])>>
                   /\ UNCHANGED <<prepPc, prepResult, prepOutcome>>
              ELSE /\ video' = [video EXCEPT !.onSeek = -1]
                   /\ captures' = captures \o <<Draw(index, at), Encode>>
                   /\ prepResult' = PrepResolved(PayloadOf(toDataURL(painted)))
                   /\ prepOutcome' = "storyboard"
                   /\ prepPc' = "done"
    /\ UNCHANGED <<prepFile, frame, timePoints, stalled>>
    /\ UNCHANGED notPrep

\* the browser dispatches no further event on the video element: neither
\* 'loadedmetadata' nor 'seeked' nor 'error' will come
NoFurtherEvent ==
    /\ prepPc \in {"videoLoading", "seeking"}
    /\ ~stalled
    /\ stalled' = TRUE
    /\ UNCHANGED <<prepFile, prepPc, prepResult, prepOutcome, video, frame, timePoints,
                   canvas, captures>>
    /\ UNCHANGED notPrep

\* a test that also sends a file of exactly the threshold to the resizer
AtLeastThreshold(size) == size >= SAFETY_THRESHOLD_BYTES

\* file.size > SAFETY_THRESHOLD_BYTES
ExceedsThreshold(size) == size > SAFETY_THRESHOLD_BYTES

\* reader.onload of the image branch, up to the await of smartCompressImage
PrepReaderOnload ==
    /\ prepPc = "reading"
    /\ prepFile.media.readable
    /\ IF ExceedsThreshold(prepFile.size)
       THEN /\ prepPc' = "imgLoading"
            /\ UNCHANGED <<prepResult, prepOutcome>>
       ELSE /\ prepResult' = PrepResolved(OriginalPayload)
            /\ prepOutcome' = "original"
            /\ prepPc' = "done"
    /\ UNCHANGED <<prepFile, video, frame, timePoints, canvas, captures, stalled>>
    /\ UNCHANGED notPrep

\* reader.onerror of the image branch
PrepReaderOnerror ==
    /\ prepPc = "reading"
    /\ ~prepFile.media.readable
    /\ prepResult' = PrepRejected("read error")
    /\ prepOutcome' = "readError"
    /\ prepPc' = "done"
    /\ UNCHANGED <<prepFile, video, frame, timePoints, canvas, captures, stalled>>
    /\ UNCHANGED notPrep

\* img.onload of smartCompressImage and the try/catch of fileToBase64 that
\* awaits it: a rejection there resolves the call with the original text
ImgOnload ==
    /\ prepPc = "imgLoading"
    /\ prepFile.media.decodable
    /\ \E ctx \in BOOLEAN :
           LET size == ResizedSize(prepFile.media.width, prepFile.media.height)
               painted == [width |-> size.width, height |-> size.height,
                           drawn |-> <<[x |-> 0, y |-> 0, width |-> size.width,
                                        height |-> size.height, time |-> Zero]>>]
               resizedDataUrl == toDataURL(painted)
           IN  /\ frame' = size
               /\ IF ~ctx
                  THEN /\ canvas' = [painted EXCEPT !.drawn = << >>]
                       /\ prepResult' = PrepResolved(OriginalPayload)
                       /\ prepOutcome' = "fallbackNoContext"
                  ELSE IF TooSmall(resizedDataUrl)
                  THEN /\ canvas' = painted
                       /\ prepResult' = PrepResolved(OriginalPayload)
                       /\ prepOutcome' = "fallbackTooSmall"
                  ELSE /\ canvas' = painted
                       /\ prepResult' = PrepResolved(PayloadOf(resizedDataUrl))
                       /\ prepOutcome' = "resized"
    /\ prepPc' = "done"
    /\ UNCHANGED <<prepFile, video, timePoints, captures, stalled>>
    /\ UNCHANGED notPrep

\* img.onerror of smartCompressImage, the rejection caught in fileToBase64
ImgOnerror ==
    /\ prepPc = "imgLoading"
    /\ ~prepFile.media.decodable
    /\ prepResult' = PrepResolved(OriginalPayload)
    /\ prepOutcome' = "fallbackLoadError"
    /\ prepPc' = "done"
    /\ UNCHANGED <<prepFile, video, frame, timePoints, canvas, captures, stalled>>
    /\ UNCHANGED notPrep

PrepNext ==
    \/ fileToBase64
    \/ VideoOnloadedmetadata
    \/ VideoOnerror
    \/ OnSeek
    \/ NoFurtherEvent
    \/ PrepReaderOnload
    \/ PrepReaderOnerror
    \/ ImgOnload
    \/ ImgOnerror

\* every handler runs once its event is there: the event loop starves no task
PrepSpec == PrepInit /\ [][PrepNext]_vars /\ WF_vars(PrepNext)


(***************************************************************************)
(* findBinarySequence on its own: every haystack, pattern and limit of a   *)
(* small universe.  The injector calls it with a non-empty string literal  *)
(* as the pattern and with either no limit or the limit 1024, so the       *)
(* patterns drawn are non-empty and the limits drawn are positive.         *)
(***************************************************************************)
MaxHaystackLen == 4

MaxPatternLen == 3

MaxLimit == 5

\* '%' and '!'
FindAlphabet == {37, 33}

FindSeqs(lo, hi) == UNION {[1..n -> FindAlphabet] : n \in lo..hi}

FindHaystacks == FindSeqs(0, MaxHaystackLen)

FindPatterns == FindSeqs(1, MaxPatternLen)

\* 0 stands for a call without the third argument
FindLimits == 0..MaxLimit

FindInit ==
    /\ findHaystack \in FindHaystacks
    /\ findPattern \in FindPatterns
    /\ findLimit \in FindLimits
    /\ findPc = "call"
    /\ findResult = -1
    /\ EmbedIdle
    /\ PrepIdle
    /\ FnIdle
    /\ RetryIdle
    /\ AppIdle

FindCall ==
    /\ findPc = "call"
    /\ findResult' = findBinarySequence(findHaystack, findPattern, findLimit)
    /\ findPc' = "done"
    /\ UNCHANGED <<findHaystack, findPattern, findLimit>>
    /\ UNCHANGED notFind

FindNext == FindCall

FindSpec == FindInit /\ [][FindNext]_vars

(***************************************************************************)
(* The generate-metadata function: credit check and deduction, the         *)
(* provider pools, the refund and the response.  Every await of serve is   *)
(* one step, so the steps of concurrent requests interleave there.         *)
(***************************************************************************)
MaxCredits == 3

MaxKeys == 2

BillableActions == {"generate_metadata", "strategic_analysis", "reverse_prompt"}

\* an action that is in none of the lists serve tests
UnlistedAction == "unlisted"

MimeTypes == {"video/mp4", "image/jpeg", ""}

\* payload.mimeType && payload.mimeType.startsWith('video/')
IsVideoMime(mimeType) == mimeType = "video/mp4"

\* cost = (payload.mimeType && payload.mimeType.startsWith('video/')) ? 2 : 1
\* for the billable actions, 0 otherwise
CostOf(action, mimeType) ==
    IF action \in BillableActions
    THEN (IF IsVideoMime(mimeType) THEN 2 ELSE 1)
    ELSE 0

\* the value of `result`: null, or what a provider's reply was parsed to,
\* and the pool that gave it
NoResult == [kind |-> "null", by |-> ""]

Truthy(res) == res.kind # "null"

HasTitle(res) == res.kind \in {"valid", "noKeywords"}

HasKeywords(res) == res.kind = "valid"

NoResponse == [status |-> 0, error |-> "", result |-> NoResult]

Request(action, mimeType, authorized) ==
    [action |-> action, mimeType |-> mimeType, authorized |-> authorized,
     pc |-> "auth", cost |-> 0, profile |-> -1, pool |-> 0, key |-> 0,
     result |-> NoResult, lastError |-> "", response |-> NoResponse,
     charged |-> FALSE, refunded |-> FALSE, fault |-> FALSE]

NoRequest == [Request("", "", FALSE) EXCEPT !.pc = "absent"]

FnRequests ==
    {Request(a, m, auth) : a \in BillableActions \cup {UnlistedAction},
                           m \in MimeTypes, auth \in BOOLEAN}

\* the request served at the same time, if any
PeerRequests ==
    {NoRequest, Request("generate_metadata", "image/jpeg", TRUE),
     Request("strategic_analysis", "video/mp4", TRUE)}

KeyPools == {[GEMINI |-> g, OPENAI |-> o] : g \in 0..MaxKeys, o \in 0..1}

FnInit ==
    /\ credits \in 0..MaxCredits
    /\ initialCredits = credits
    /\ KEYS \in KeyPools
    /\ \E first \in FnRequests, second \in PeerRequests : requests = <<first, second>>
    /\ EmbedIdle
    /\ PrepIdle
    /\ FindIdle
    /\ RetryIdle
    /\ AppIdle

\* the pools a request goes through, in order
PoolsOf(req) ==
    IF req.action \notin BillableActions THEN << >>
    ELSE IF IsVideoMime(req.mimeType) THEN <<"GEMINI", "OPENAI">>
    ELSE <<"OPENAI", "GEMINI">>

\* the provider call that follows the one with key k of pool p while result
\* is still null (<<0, 0>>: none is left); the first call is the one after <<1, 0>>
CallAfter(req, p, k) ==
    LET pools == PoolsOf(req)
    IN  IF p <= Len(pools) /\ k < KEYS[pools[p]] THEN <<p, k + 1>>
        ELSE IF p + 1 <= Len(pools) /\ KEYS[pools[p + 1]] > 0 THEN <<p + 1, 1>>
        ELSE <<0, 0>>

Respond(req, status, error) ==
    [req EXCEPT !.pc = "done",
                !.response = [status |-> status, error |-> error,
                              result |-> IF status = 200 THEN req.result ELSE NoResult]]

\* where serve goes from the end of a provider call (or from the start of
\* the generation stage, with p = 1 and k = 0): every loop breaks and every
\* later pool is skipped once result is truthy; otherwise the next key, then
\* the next pool, then `throw new Error("All AI Providers failed.")`, which
\* the catch answers with a refund when cost > 0
Continue(req, p, k) ==
    LET next == CallAfter(req, p, k)
    IN  IF Truthy(req.result) THEN Respond(req, 200, "")
        ELSE IF next # <<0, 0>> THEN [req EXCEPT !.pc = "provider", !.pool = next[1],
                                                 !.key = next[2]]
        ELSE IF req.cost > 0 THEN [req EXCEPT !.pc = "refundSelect"]
        ELSE Respond(req, 500, "Generation Failed")

\* getUser, then the cost
Authenticate(r) ==
    /\ requests[r].pc = "auth"
    /\ LET req == requests[r]
           cost == CostOf(req.action, req.mimeType)
       IN  requests' = [requests EXCEPT ![r] =
               IF ~req.authorized THEN Respond(req, 500, "Unauthorized")
               ELSE IF cost > 0 THEN [req EXCEPT !.cost = cost, !.pc = "select"]
               ELSE Continue(req, 1, 0)]
    /\ UNCHANGED <<credits, initialCredits, KEYS>>
    /\ UNCHANGED notFn

\* select('credits'): the row read, or null when the read fails
SelectCredits(r) ==
    /\ requests[r].pc = "select"
    /\ \E ok \in BOOLEAN :
           LET req == requests[r]
           IN  requests' = [requests EXCEPT ![r] =
                   IF ~ok THEN Respond([req EXCEPT !.fault = TRUE], 402, "Insufficient credits.")
                   ELSE IF credits < req.cost THEN Respond(req, 402, "Insufficient credits.")
                   ELSE [req EXCEPT !.profile = credits, !.pc = "deduct"]]
    /\ UNCHANGED <<credits, initialCredits, KEYS>>
    /\ UNCHANGED notFn

\* update({ credits: profile.credits - cost }), then the generation stage
\* up to its first provider call
DeductCredits(r) ==
    /\ requests[r].pc = "deduct"
    /\ \E ok \in BOOLEAN :
           LET req == requests[r]
           IN  IF ok
               THEN /\ credits' = req.profile - req.cost
                    /\ requests' = [requests EXCEPT ![r] =
                           Continue([req EXCEPT !.charged = TRUE], 1, 0)]
               ELSE /\ credits' = credits
                    /\ requests' = [requests EXCEPT ![r] =
                           Respond([req EXCEPT !.fault = TRUE], 500, "Transaction failed.")]
    /\ UNCHANGED <<initialCredits, KEYS>>
    /\ UNCHANGED notFn

\* what a provider may answer a generate_metadata call with: a failed call;
\* text that is not JSON; a valid object inside a markdown fence; the JSON
\* null; an object without a title; one with a title but no keywords; one
\* with both
JsonReplies == {"error", "garbage", "fenced", "null", "noTitle", "noKeywords", "valid"}

TextReplies == {"error", "text"}

RepliesTo(req) == IF req.action = "generate_metadata" THEN JsonReplies ELSE TextReplies

\* the body of one try block of a pool: the call, the assignment to result
\* and the validation; a throw leaves result as it was at that point and
\* sets lastError
AfterReply(req, reply) ==
    LET by == PoolsOf(req)[req.pool]
        geminiVideo == by = "GEMINI" /\ IsVideoMime(req.mimeType)
        threw(e) == [req EXCEPT !.lastError = e]
        assigned(kind) == [req EXCEPT !.result = [kind |-> kind, by |-> by]]
    IN  IF reply = "error" THEN threw("provider")
        ELSE IF req.action # "generate_metadata" THEN assigned("text")
        ELSE IF reply = "garbage" THEN threw("parse")
        ELSE IF reply = "fenced"
             THEN (IF by = "GEMINI" THEN assigned("valid") ELSE threw("parse"))
        ELSE IF reply = "null" THEN threw("typeError")
        ELSE IF reply = "noTitle"
             THEN [assigned("noTitle") EXCEPT !.lastError = "invalid"]
        ELSE IF reply = "noKeywords" /\ geminiVideo
             THEN [assigned("noKeywords") EXCEPT !.lastError = "invalid"]
        ELSE assigned(reply)

\* one provider call returns or throws
ProviderReply(r) ==
    /\ requests[r].pc = "provider"
    /\ \E reply \in RepliesTo(requests[r]) :
           LET req == requests[r]
           IN  requests' = [requests EXCEPT ![r] =
                   Continue(AfterReply(req, reply), req.pool, req.key)]
    /\ UNCHANGED <<credits, initialCredits, KEYS>>
    /\ UNCHANGED notFn

\* the catch: select('credits') again; no refund when it gives no row
RefundSelect(r) ==
    /\ requests[r].pc = "refundSelect"
    /\ \E ok \in BOOLEAN :
           LET req == requests[r]
           IN  requests' = [requests EXCEPT ![r] =
                   IF ok THEN [req EXCEPT !.profile = credits, !.pc = "refundUpdate"]
                   ELSE Respond([req EXCEPT !.fault = TRUE], 500, "Generation Failed")]
    /\ UNCHANGED <<credits, initialCredits, KEYS>>
    /\ UNCHANGED notFn

\* update({ credits: currentProfile.credits + cost }), its error not looked
\* at, then the 500 response
RefundUpdate(r) ==
    /\ requests[r].pc = "refundUpdate"
    /\ \E ok \in BOOLEAN :
           LET req == requests[r]
           IN  IF ok
               THEN /\ credits' = req.profile + req.cost
                    /\ requests' = [requests EXCEPT ![r] =
                           Respond([req EXCEPT !.refunded = TRUE], 500, "Generation Failed")]
               ELSE /\ credits' = credits
                    /\ requests' = [requests EXCEPT ![r] =
                           Respond([req EXCEPT !.fault = TRUE], 500, "Generation Failed")]
    /\ UNCHANGED <<initialCredits, KEYS>>
    /\ UNCHANGED notFn

FnNext ==
    \E r \in 1..2 :
        \/ Authenticate(r)
        \/ SelectCredits(r)
        \/ DeductCredits(r)
        \/ ProviderReply(r)
        \/ RefundSelect(r)
        \/ RefundUpdate(r)

FnSpec == FnInit /\ [][FnNext]_vars

(***************************************************************************)
(* invokeWithRetry: the loop over the attempts, the invocation of the edge *)
(* function, and the timer between two attempts.                           *)
(***************************************************************************)
\* retries = 3, the default every call site uses
retries == 3

\* setTimeout(resolve, 1000)
RetryDelay == 1000

\* time advances in steps of TickMs up to MaxNow
TickMs == 500

MaxNow == 4000

RetryMessages == {"Edge Function returned a non-2xx status code", "Generation Failed"}

\* what one invocation can give: { data, error: null } with data an object
\* without an error field, or null; { data: null, error } with a message;
\* data with an error field; or a rejected promise
InvokeOutcomes ==
    {[kind |-> "data", value |-> v] : v \in {"object", "null"}}
        \cup {[kind |-> k, value |-> m] : k \in {"error", "dataError"}, m \in RetryMessages}
        \cup {[kind |-> "rejected", value |-> "TypeError: Failed to fetch"]}

\* neither `if (error) throw` nor `if (data?.error) throw` fires
Succeeded(given) == given.kind = "data"

Invocation(start) == [start |-> start, end |-> -1, outcome |-> NoOutcome]

RetryInit ==
    /\ retryPc = "invoking"
    /\ attempt = 0
    /\ now = 0
    /\ timerDue = 0
    /\ invocations = <<Invocation(0)>>
    /\ retryResult = [outcome |-> NoOutcome, at |-> 0]
    /\ EmbedIdle
    /\ PrepIdle
    /\ FindIdle
    /\ FnIdle
    /\ AppIdle

\* a test of the last attempt that is one too late
IsLastAttemptOneLater(a, n) == a = n

\* i === retries - 1
IsLastAttempt(a, n) == a = n - 1

\* the awaited invocation settles: return data, or the catch
InvokeSettles ==
    /\ retryPc = "invoking"
    /\ \E given \in InvokeOutcomes :
           /\ invocations' = [invocations EXCEPT ![Len(invocations)] =
                                 [@ EXCEPT !.end = now, !.outcome = given]]
           /\ IF Succeeded(given)
              THEN /\ retryPc' = "returned"
                   /\ retryResult' = [outcome |-> given, at |-> now]
                   /\ UNCHANGED timerDue
              ELSE IF IsLastAttempt(attempt, retries)
              THEN /\ retryPc' = "thrown"
                   /\ retryResult' = [outcome |-> given, at |-> now]
                   /\ UNCHANGED timerDue
              ELSE /\ retryPc' = "waiting"
                   /\ timerDue' = now + RetryDelay
                   /\ UNCHANGED retryResult
    /\ UNCHANGED <<attempt, now>>
    /\ UNCHANGED notRetry

\* the timer fires: i++, and the next invocation if i < retries, else the
\* function ends and returns undefined
TimerFires ==
    /\ retryPc = "waiting"
    /\ now >= timerDue
    /\ attempt' = attempt + 1
    /\ IF attempt + 1 < retries
       THEN /\ retryPc' = "invoking"
            /\ invocations' = Append(invocations, Invocation(now))
            /\ UNCHANGED retryResult
       ELSE /\ retryPc' = "returned"
            /\ retryResult' = [outcome |-> [kind |-> "data", value |-> "undefined"], at |-> now]
            /\ UNCHANGED invocations
    /\ UNCHANGED <<now, timerDue>>
    /\ UNCHANGED notRetry

\* time passes while something is awaited
Tick ==
    /\ retryPc \in {"invoking", "waiting"}
    /\ now + TickMs <= MaxNow
    /\ now' = now + TickMs
    /\ UNCHANGED <<retryPc, attempt, timerDue, invocations, retryResult>>
    /\ UNCHANGED notRetry

RetryNext == InvokeSettles \/ TimerFires \/ Tick

RetrySpec == RetryInit /\ [][RetryNext]_vars

(***************************************************************************)
(* The App component: the queue of ids, the counter of running calls, the  *)
(* queue processor effect and processImage.                                *)
(*                                                                         *)
(* State updates are enqueued and processed at the next render, each hook  *)
(* in the order of its queue.  An update enqueued in an event handler has  *)
(* priority "sync" and is rendered, with the effects of that render, before*)
(* the event returns; an update enqueued in an effect or after an await    *)
(* has priority "default" and is rendered later, and the effect of that    *)
(* render runs later still, so that an event or a settled promise can come *)
(* between the render and its effect.  A render at priority "sync" skips   *)
(* the "default" updates of a hook and every update behind them stays      *)
(* queued for the next render.                                             *)
(***************************************************************************)
MAX_CONCURRENCY == 10

\* one file more than the cap
FileCount == MAX_CONCURRENCY + 1

FileIds == 1..FileCount

\* the cards the user acts on one by one and whose calls settle: the second
\* of the upload, after the first hand-over the head of the queue, and the last
Cards == {2, FileCount}

\* the sizes of an upload
UploadSizes == {2, FileCount}

MaxCallsPerFile == 1

\* a promise settles only while at most this many updates wait for a render
MaxWaiting == 0

\* an event is handled only if at most this many updates wait for a render after it
MaxQueued == 6

Update(lane, op, ids, status) == [lane |-> lane, op |-> op, ids |-> ids, status |-> status]

\* setProcessQueue(prev => prev.slice(1)), enqueued by the effect that read nextId
SliceFirst(nextId) == Update("default", "slice", <<nextId>>, "")

\* setProcessQueue(prev => Array.from(new Set([...prev, ...idsToProcess])))
Union(lane, ids) == Update(lane, "union", ids, "")

\* setProcessQueue([])
Clear(lane) == Update(lane, "clear", << >>, "")

\* setProcessQueue(prev => prev.filter(pid => !idsToDelete.includes(pid)))
Filter(lane, ids) == Update(lane, "filter", ids, "")

\* setActiveCount(prev => prev + 1) and setActiveCount(prev => prev - 1)
CountUp(lane) == Update(lane, "inc", << >>, "")

CountDown(lane) == Update(lane, "dec", << >>, "")

\* setFiles(prev => prev.map(f => f.id === id ? { ...f, status } : f))
SetStatus(lane, id, status) == Update(lane, "status", <<id>>, status)

\* setFiles(prev => [...prev, ...newStockFiles])
AddFiles(lane, ids) == Update(lane, "add", ids, "")

\* setFiles(prev => prev.filter(file => !idsToDelete.includes(file.id)))
RemoveFiles(lane, ids) == Update(lane, "remove", ids, "")

HookOf(u) ==
    IF u.op \in {"slice", "union", "clear", "filter"} THEN "processQueue"
    ELSE IF u.op \in {"inc", "dec"} THEN "activeCount"
    ELSE "files"

Elements(seq) == {seq[k] : k \in 1..Len(seq)}

\* the elements of a set of numbers in increasing order
Ascending(S) ==
    [k \in 1..Cardinality(S) |-> CHOOSE x \in S : Cardinality({y \in S : y < x}) = k - 1]

\* the elements of a sequence at the indices in I, in order
SubSeqAt(seq, I) == LET at == Ascending(I) IN [k \in 1..Len(at) |-> seq[at[k]]]

\* the three states, and the ids that a slice(1) of the queue processor has
\* removed from the queue although no effect had read them as nextId
AppState(f, q, c, dropped) ==
    [files |-> f, processQueue |-> q, activeCount |-> c, dropped |-> dropped]

\* the ids that effects have read as nextId and whose slice(1) is still queued
ReadAsNextId ==
    {updateQueue[k].ids[1] : k \in {j \in 1..Len(updateQueue) : updateQueue[j].op = "slice"}}

\* one updater applied to the state of its hook
ApplyUpdate(st, u) ==
    LET q == st.processQueue
        inIds(x) == x \in Elements(u.ids)
        notInIds(x) == x \notin Elements(u.ids)
        notQueued(x) == x \notin Elements(q)
    IN  CASE u.op = "slice" ->
                 IF q = << >> THEN st
                 ELSE [st EXCEPT !.processQueue = Tail(q),
                                 !.dropped = @ \cup ({Head(q)} \ ReadAsNextId)]
          [] u.op = "union" -> [st EXCEPT !.processQueue = q \o SelectSeq(u.ids, notQueued)]
          [] u.op = "clear" -> [st EXCEPT !.processQueue = << >>]
          [] u.op = "filter" -> [st EXCEPT !.processQueue = SelectSeq(q, notInIds)]
          [] u.op = "inc" -> [st EXCEPT !.activeCount = @ + 1]
          [] u.op = "dec" -> [st EXCEPT !.activeCount = @ - 1]
          [] u.op = "status" ->
                 [st EXCEPT !.files = [f \in FileIds |->
                     IF inIds(f) /\ st.files[f] # "NONE" THEN u.status ELSE st.files[f]]]
          [] u.op = "add" ->
                 [st EXCEPT !.files = [f \in FileIds |-> IF inIds(f) THEN "IDLE" ELSE st.files[f]]]
          [] u.op = "remove" ->
                 [st EXCEPT !.files = [f \in FileIds |-> IF inIds(f) THEN "NONE" ELSE st.files[f]]]

\* the updaters of a queue applied in order
RECURSIVE ApplyAll(_, _)
ApplyAll(st, us) ==
    IF us = << >> THEN st
    ELSE CHOOSE final \in {ApplyAll(next, Tail(us)) : next \in {ApplyUpdate(st, Head(us))}} : TRUE

IsSync(u) == u.lane = "sync"

\* a render at priority "sync": only the updates of that priority
ApplySync(st, us) == ApplyAll(st, SelectSeq(us, IsSync))

\* the updates that stay queued after a "sync" render: a skipped update and
\* everything behind it in the queue of the same hook
Retained(us) ==
    {k \in 1..Len(us) :
        \E j \in 1..k : us[j].lane = "default" /\ HookOf(us[j]) = HookOf(us[k])}

\* what the closures of the last render see
View == AppState(files, processQueue, activeCount, {})

\* [processQueue, activeCount] differ from those of the last render: the
\* render processed an update of the queue (every updater returns a new
\* array) or the counter has another value
DepsChanged(processed, v) ==
    \/ \E k \in 1..Len(processed) : HookOf(processed[k]) = "processQueue"
    \/ v.activeCount # activeCount

\* if (processQueue.length > 0 && activeCount < MAX_CONCURRENCY)
EffectRuns(v) == Len(v.processQueue) > 0 /\ v.activeCount < MAX_CONCURRENCY

\* const targetFile = files.find(f => f.id === id)
Found(id, v) == v.files[id] # "NONE"

\* processImage(id) up to its first await: the two updates, and the third
\* one of the early return when the file is not in the list of the closure
processImage(lane, id, v) ==
    <<CountUp(lane), SetStatus(lane, id, "PROCESSING")>>
        \o (IF Found(id, v) THEN << >> ELSE <<CountDown(lane)>>)

\* the body of the queue processor effect in the closure of render v
EffectUpdates(v) ==
    IF EffectRuns(v)
    THEN <<SliceFirst(Head(v.processQueue))>> \o processImage("default", Head(v.processQueue), v)
    ELSE << >>

\* the call the effect leaves running
EffectCalls(v) ==
    IF EffectRuns(v) /\ Found(Head(v.processQueue), v) THEN {Head(v.processQueue)} ELSE {}

NoCalls == [prep |-> 0, generate |-> 0, embed |-> 0]

CallsOf(f) == inflight[f].prep + inflight[f].generate + inflight[f].embed

\* the calls of ids reach their first await
StartCalls(fl, ids) ==
    [f \in FileIds |-> IF f \in ids THEN [fl[f] EXCEPT !.prep = @ + 1] ELSE fl[f]]

AppInit ==
    /\ files = [f \in FileIds |-> "NONE"]
    /\ processQueue = << >>
    /\ activeCount = 0
    /\ baseState = AppState([f \in FileIds |-> "NONE"], << >>, 0, {})
    /\ updateQueue = << >>
    /\ effectPending = FALSE
    /\ inflight = [f \in FileIds |-> NoCalls]
    /\ EmbedIdle
    /\ PrepIdle
    /\ FindIdle
    /\ FnIdle
    /\ RetryIdle

\* an event handler that enqueues `updates` and makes the processImage calls
\* of `called`, then the render of that event: an effect still waiting runs
\* first, in the closure of the last render; the "sync" updates are
\* rendered; and if processQueue or activeCount changed, the effect of this
\* render runs at once
Discrete(updates, called) ==
    \E stale \in {effectPending} :
    \E q1 \in {updateQueue \o updates \o (IF stale THEN EffectUpdates(View) ELSE << >>)} :
    \E keep \in {Retained(q1)} :
    \E base \in {ApplyAll(baseState, SubSeqAt(q1, (1..Len(q1)) \ keep))} :
    \E rest \in {SubSeqAt(q1, keep)} :
    \E v \in {ApplySync(base, rest)} :
    \E again \in {DepsChanged(SelectSeq(q1, IsSync), v) /\ EffectRuns(v)} :
        /\ files' = v.files
        /\ processQueue' = v.processQueue
        /\ activeCount' = v.activeCount
        /\ baseState' = base
        /\ updateQueue' = rest \o (IF again THEN EffectUpdates(v) ELSE << >>)
        /\ Len(updateQueue') <= MaxQueued
        /\ effectPending' = FALSE
        /\ inflight' = StartCalls(StartCalls(StartCalls(inflight, called),
                                             IF stale THEN EffectCalls(View) ELSE {}),
                                  IF again THEN EffectCalls(v) ELSE {})
        /\ \A f \in FileIds :
               inflight'[f].prep + inflight'[f].generate + inflight'[f].embed
                   <= MaxCallsPerFile

\* an upload in batch view
handleFilesSelected ==
    /\ \A f \in FileIds : files[f] = "NONE" /\ baseState.files[f] = "NONE"
    /\ \E n \in UploadSizes : Discrete(<<AddFiles("sync", Ascending(1..n))>>, {})
    /\ UNCHANGED notApp

\* Start Batch, shown while nothing runs; with a selection the selected
\* files that are neither PROCESSING nor SUCCESS, without one the IDLE and
\* ERROR files
startProcessing ==
    /\ activeCount = 0
    /\ processQueue = << >>
    /\ \E selectedIds \in {{}} \cup {{c} : c \in Cards} :
           LET idsToProcess ==
                   IF selectedIds # {}
                   THEN {f \in selectedIds : files[f] \in {"IDLE", "ERROR"}}
                   ELSE {f \in FileIds : files[f] \in {"IDLE", "ERROR"}}
           IN  /\ idsToProcess # {}
               /\ Discrete(<<Union("sync", Ascending(idsToProcess))>>, {})
    /\ UNCHANGED notApp

\* Stop, shown while something runs
stopProcessing ==
    /\ activeCount > 0 \/ processQueue # << >>
    /\ Discrete(<<Clear("sync")>>, {})
    /\ UNCHANGED notApp

\* Delete with one card selected
handleDeleteBatch ==
    /\ \E c \in Cards :
           /\ files[c] # "NONE"
           /\ Discrete(<<RemoveFiles("sync", <<c>>), Filter("sync", <<c>>)>>, {})
    /\ UNCHANGED notApp

\* onRegenerate={() => processImage(editingFileId!)}: the buttons of a card
\* whose status is IDLE, ERROR or SUCCESS
Regenerate ==
    /\ \E c \in Cards :
           /\ files[c] \in {"IDLE", "ERROR", "SUCCESS"}
           /\ Discrete(processImage("sync", c, View), {c})
    /\ UNCHANGED notApp

\* a render of the updates enqueued outside event handlers
Render ==
    /\ updateQueue # << >>
    /\ ~effectPending
    /\ \E new \in {ApplyAll(baseState, updateQueue)} :
           /\ files' = new.files
           /\ processQueue' = new.processQueue
           /\ activeCount' = new.activeCount
           /\ baseState' = new
           /\ updateQueue' = << >>
           /\ effectPending' = (DepsChanged(updateQueue, new) /\ EffectRuns(new))
    /\ UNCHANGED inflight
    /\ UNCHANGED notApp

\* the queue processor effect of the last render
QueueProcessor ==
    /\ effectPending
    /\ effectPending' = FALSE
    /\ updateQueue' = updateQueue \o EffectUpdates(View)
    /\ inflight' = StartCalls(inflight, EffectCalls(View))
    /\ \A f \in EffectCalls(View) : CallsOf(f) < MaxCallsPerFile
    /\ UNCHANGED <<files, processQueue, activeCount, baseState>>
    /\ UNCHANGED notApp

\* what the catch and the finally of processImage enqueue for a rejection:
\* an Error with a message; one whose message names the credits; a value
\* without a message, on which error.message.toLowerCase() throws before
\* the status is set
Catch(id, thrown) ==
    IF thrown = "noMessage" THEN <<CountDown("default")>>
    ELSE (IF thrown = "insufficient credits" THEN <<Clear("default")>> ELSE << >>)
             \o <<SetStatus("default", id, "ERROR"), CountDown("default")>>

\* fileToBase64 settles: a video rejects with an Error, an image with the
\* event of reader.onerror
FileToBase64Settles ==
    /\ \E c \in Cards, settled \in {"resolved", "error", "noMessage"} :
           /\ inflight[c].prep > 0
           /\ Len(updateQueue) <= MaxWaiting
           /\ IF settled = "resolved"
              THEN /\ inflight' = [inflight EXCEPT ![c].prep = @ - 1, ![c].generate = @ + 1]
                   /\ UNCHANGED updateQueue
              ELSE /\ inflight' = [inflight EXCEPT ![c].prep = @ - 1]
                   /\ updateQueue' = updateQueue \o Catch(c, settled)
    /\ UNCHANGED <<files, processQueue, activeCount, baseState, effectPending>>
    /\ UNCHANGED notApp

\* generateImageMetadata settles
GenerateSettles ==
    /\ \E c \in Cards, settled \in {"resolved", "error", "insufficient credits"} :
           /\ inflight[c].generate > 0
           /\ Len(updateQueue) <= MaxWaiting
           /\ IF settled = "resolved"
              THEN /\ inflight' = [inflight EXCEPT ![c].generate = @ - 1, ![c].embed = @ + 1]
                   /\ UNCHANGED updateQueue
              ELSE /\ inflight' = [inflight EXCEPT ![c].generate = @ - 1]
                   /\ updateQueue' = updateQueue \o Catch(c, settled)
    /\ UNCHANGED <<files, processQueue, activeCount, baseState, effectPending>>
    /\ UNCHANGED notApp

\* embedMetadata settles: resolved or rejected, the status becomes SUCCESS
EmbedSettles ==
    /\ \E c \in Cards :
           /\ inflight[c].embed > 0
           /\ Len(updateQueue) <= MaxWaiting
           /\ inflight' = [inflight EXCEPT ![c].embed = @ - 1]
           /\ updateQueue' = updateQueue
                  \o <<SetStatus("default", c, "SUCCESS"), CountDown("default")>>
    /\ UNCHANGED <<files, processQueue, activeCount, baseState, effectPending>>
    /\ UNCHANGED notApp

AppNext ==
    \/ handleFilesSelected
    \/ startProcessing
    \/ stopProcessing
    \/ handleDeleteBatch
    \/ Regenerate
    \/ Render
    \/ QueueProcessor
    \/ FileToBase64Settles
    \/ GenerateSettles
    \/ EmbedSettles

AppSpec == AppInit /\ [][AppNext]_vars
(***************************************************************************)
(* Properties.                                                             *)
(***************************************************************************)
\* the conditions of the dispatcher, read off the lowercased type and name
IsJpegFile == toLowerCase(file.type) = MimeJpeg \/ EndsWith(toLowerCase(file.name), ExtJpg)
                  \/ EndsWith(toLowerCase(file.name), ExtJpeg)
IsPngFile == toLowerCase(file.type) = MimePng \/ EndsWith(toLowerCase(file.name), ExtPng)
IsSvgFile == toLowerCase(file.type) = MimeSvg \/ EndsWith(toLowerCase(file.name), ExtSvg)
IsEpsFile == EndsWith(toLowerCase(file.name), ExtEps)
IsVideoFile == StartsWith(toLowerCase(file.type), VideoPrefix)
                   \/ EndsWith(toLowerCase(file.name), ExtMp4)
                   \/ EndsWith(toLowerCase(file.name), ExtMov)

\* C1: once the dispatcher has run, the injector it entered is one whose
\* condition the file meets (JPEG: image/jpeg, .jpg, .jpeg; PNG: image/png,
\* .png; SVG: image/svg+xml, .svg; EPS: .eps; video: video/*, .mp4, .mov, all
\* compared case-insensitively); a file meeting a condition goes to that
\* injector unless it also meets one listed earlier; and a file meeting none
\* of them is returned as the very same object, bytes unchanged, with no
\* injector entered.
DispatchRoutesByTypeOrExtension ==
    route # "" =>
        /\ route = "jpeg" <=> IsJpegFile
        /\ route = "png" <=> (IsPngFile /\ ~IsJpegFile)
        /\ route = "svg" <=> (IsSvgFile /\ ~IsJpegFile /\ ~IsPngFile)
        /\ route = "eps" <=> (IsEpsFile /\ ~IsJpegFile /\ ~IsPngFile /\ ~IsSvgFile)
        /\ route = "video" <=>
               (IsVideoFile /\ ~IsJpegFile /\ ~IsPngFile /\ ~IsSvgFile /\ ~IsEpsFile)
        /\ route = "none" <=>
               ~(IsJpegFile \/ IsPngFile \/ IsSvgFile \/ IsEpsFile \/ IsVideoFile)
        /\ route = "none" =>
               /\ pc = "done"
               /\ outcome = "fallback"
               /\ result.status = "resolved"
               /\ result.isInput
               /\ result.bytes = file.data
               /\ result.type = file.type
        /\ route # "none" => pc \in {route, "done"}

\* an upper-case .MOV file without a MIME type has reached the video injector,
\* and a .gif file has been returned unchanged by another call
DispatchWitnessVideo ==
    /\ route = "video"
    /\ file.name = NameMovUpper
    /\ file.type = << >>
    /\ pc = "done"
    /\ outcome = "videoBoxed"

\* C2 as stated: every call routed to the JPEG, PNG, SVG or EPS injector ends
\* with a resolved promise (never rejected, never left pending), and a handler
\* that met an error resolved it with the input file itself.
StillImageInjectorsAlwaysResolve ==
    (pc = "done" /\ route \in {"jpeg", "png", "svg", "eps"}) =>
        /\ result.status = "resolved"
        /\ ~uncaught
        /\ outcome \in {"jpegCaught", "readError", "pngNotPng", "pngThrew", "svgRejected"} =>
               (result.isInput /\ result.bytes = file.data)

\* two bytes as a big-endian number
Be16(hi, lo) == 256 * hi + lo

\* C3 as stated: in the output of the JPEG injector the XMP APP1 segment
\* starts at offset 2 with FF E1, its length field holds 2 + 29 + the number of
\* UTF-8 bytes of the packet, the 29-byte namespace header and the packet
\* follow, and the rest of the EXIF-bearing stream starts at offset 4 + that
\* value.
JpegApp1LengthCountsPayload ==
    outcome = "jpegSpliced" =>
        LET out == result.bytes
            xmpBytes == TextEncode(xmp)
            value == Be16(At(out, 4), At(out, 5))
        IN  /\ Slice(out, 0, 4) = <<255, 216, 255, 225>>
            /\ value = 2 + 29 + Len(xmpBytes)
            /\ Slice(out, 6, 6 + 29) = XmpNamespaceHeader
            /\ Slice(out, 6 + 29, 4 + value) = xmpBytes
            /\ SliceFrom(out, 4 + value) = SliceFrom(fileBytes, 2)

(***************************************************************************)
(* The standard CRC-32 (ISO 3309, PNG annex D), bit by bit: a 32-bit shift *)
(* register, reg[1] the low-order bit, initialised to all ones, fed the    *)
(* message bytes low-order bit first, inverted at the end.                 *)
(***************************************************************************)
\* the exponents of the generator polynomial below x^32
StdCrcExponents == {0, 1, 2, 4, 5, 7, 8, 10, 11, 12, 16, 22, 23, 26}

StdCrcStep(reg, bit) ==
    LET feedback == (reg[1] + bit) % 2
    IN  [i \in 1..32 |->
            LET shifted == IF i < 32 THEN reg[i + 1] ELSE 0
                poly == IF (32 - i) \in StdCrcExponents THEN 1 ELSE 0
            IN  (shifted + feedback * poly) % 2]

StdCrcByte(reg, byte) ==
    LET r1 == StdCrcStep(reg, byte % 2)
        r2 == StdCrcStep(r1, (byte \div 2) % 2)
        r3 == StdCrcStep(r2, (byte \div 4) % 2)
        r4 == StdCrcStep(r3, (byte \div 8) % 2)
        r5 == StdCrcStep(r4, (byte \div 16) % 2)
        r6 == StdCrcStep(r5, (byte \div 32) % 2)
        r7 == StdCrcStep(r6, (byte \div 64) % 2)
    IN  StdCrcStep(r7, (byte \div 128) % 2)

StdCrcFeed[reg \in Seq({0, 1}), buf \in Seq(0..255)] ==
    IF Len(buf) = 0 THEN reg
    ELSE IF Len(buf) = 1 THEN StdCrcByte(reg, buf[1])
    ELSE LET h == Len(buf) \div 2
         IN  StdCrcFeed[StdCrcFeed[reg, SubSeq(buf, 1, h)], SubSeq(buf, h + 1, Len(buf))]

\* bits lo..lo+7 of a register as a byte
StdCrcOctet(reg, lo) ==
    reg[lo] + 2 * reg[lo + 1] + 4 * reg[lo + 2] + 8 * reg[lo + 3] + 16 * reg[lo + 4]
        + 32 * reg[lo + 5] + 64 * reg[lo + 6] + 128 * reg[lo + 7]

\* the CRC-32 of a byte sequence as four bytes, most significant first
StdCrc32(buf) ==
    LET reg == StdCrcFeed[[i \in 1..32 |-> 1], buf]
        inv == [i \in 1..32 |-> 1 - reg[i]]
    IN  <<StdCrcOctet(inv, 25), StdCrcOctet(inv, 17), StdCrcOctet(inv, 9), StdCrcOctet(inv, 1)>>

\* four bytes as a big-endian number (below 2^31)
Be32(b) == 16777216 * b[1] + 65536 * b[2] + 256 * b[3] + b[4]

\* the PNG signature followed by a 13-byte IHDR chunk: the first 33 bytes of
\* a well-formed PNG
WellFormedPng(data) ==
    /\ Len(data) >= 33
    /\ Slice(data, 0, 8) = <<137, 80, 78, 71, 13, 10, 26, 10>>
    /\ Slice(data, 8, 16) = <<0, 0, 0, 13, 73, 72, 68, 82>>

\* C4: for a readable, well-formed PNG the bytes the injector adds at offset
\* 33 form one chunk [4-byte big-endian data length d][iTXt][d data bytes]
\* [4-byte big-endian CRC], the output is 12 + d bytes longer than the input,
\* and the CRC is the standard CRC-32 of the type bytes followed by the data.
PngChunkIsStandardItxt ==
    (pc = "done" /\ route = "png" /\ file.readable /\ WellFormedPng(file.data)) =>
        /\ outcome = "pngSpliced"
        /\ result.status = "resolved"
        /\ LET out == result.bytes
               added == Len(out) - Len(file.data)
               chunk == Slice(out, 33, 33 + added)
               d == Be32(Slice(chunk, 0, 4))
           IN  /\ added = 12 + d
               /\ Len(out) = Len(file.data) + 12 + d
               /\ Slice(chunk, 4, 8) = PngChunkType
               /\ d = Len(PngKeyword) + 5 + Len(TextEncode(xmp))
               /\ Slice(chunk, 8 + d, 12 + d) = StdCrc32(Slice(chunk, 4, 8 + d))

\* a minimal PNG has gone through the injector with metadata that needs escaping
PngChunkWitness ==
    /\ outcome = "pngSpliced"
    /\ file.data = PngMinimal
    /\ metadata = MetaEscapes
    /\ Len(result.bytes) > Len(file.data) + 12

\* C5: for a readable, well-formed PNG of n bytes the output is the input's
\* first 33 bytes, then the new chunk, then the input's bytes 33..n unchanged:
\* nothing of the input is lost, reordered or altered.
PngSplicePreservesInput ==
    (pc = "done" /\ route = "png" /\ file.readable /\ WellFormedPng(file.data)) =>
        /\ outcome = "pngSpliced"
        /\ Len(piece) > 12
        /\ LET out == result.bytes
           IN  /\ Len(out) = Len(file.data) + Len(piece)
               /\ Slice(out, 0, 33) = Slice(file.data, 0, 33)
               /\ Slice(out, 33, 33 + Len(piece)) = piece
               /\ SliceFrom(out, 33 + Len(piece)) = SliceFrom(file.data, 33)

\* the IEND chunk of a minimal PNG has been carried over behind the new chunk
PngSpliceWitness ==
    /\ outcome = "pngSpliced"
    /\ file.data = PngMinimal
    /\ metadata = MetaPlain
    /\ SliceFrom(result.bytes, 33 + Len(piece)) = SliceFrom(PngMinimal, 33)
    /\ Len(SliceFrom(PngMinimal, 33)) = 12

\* the <metadata> element holding a packet
MetadataElement(packet) == MetadataOpenTag \o packet \o MetadataCloseTag

\* what C6 describes for an SVG text and a packet
SvgExpected(text, packet) ==
    LET open == IndexOf(text, MetadataOpenTag, 0)
        close == IF open = -1 THEN -1
                 ELSE IndexOf(text, MetadataCloseTag, open + Len(MetadataOpenTag))
        svgEnd == IndexOf(text, SvgCloseTag, 0)
    IN  IF open # -1 /\ close # -1
        THEN Slice(text, 0, open) \o MetadataElement(packet)
                 \o SliceFrom(text, close + Len(MetadataCloseTag))
        ELSE IF svgEnd # -1
        THEN Slice(text, 0, svgEnd) \o MetadataElement(packet) \o SliceFrom(text, svgEnd)
        ELSE text \o <<10>> \o MetadataElement(packet)

\* C6 as stated: the SVG injector's output is the input with the content of
\* its <metadata>...</metadata> element replaced by the packet if such an
\* element exists, else with a <metadata> element holding the packet inserted
\* just before the first </svg>, else with that element appended at the end
\* (after a line feed); in every case the output contains the packet verbatim.
SvgOutputHoldsPacketVerbatim ==
    outcome = "svgInjected" =>
        /\ result.bytes = TextEncode(SvgExpected(BlobText(file.data), xmp))
        /\ Includes(piece, xmp)

\* the offset of the first occurrence of a byte pattern, or -1
FirstOccurrence(data, pattern) ==
    LET hits == {i \in 0..(Len(data) - Len(pattern)) : MatchAt(data, pattern, i)}
    IN  IF hits = {} THEN -1 ELSE CHOOSE i \in hits : \A j \in hits : i <= j

\* C7: when a readable EPS file contains the bytes %%EndComments, the
\* injected comment block starts at byte offset i + 13, i being the offset of
\* the first occurrence: the output is input[0..i+13), the block,
\* input[i+13..n).
EpsInsertsAfterEndComments ==
    (pc = "done" /\ route = "eps" /\ file.readable
         /\ FirstOccurrence(file.data, EndCommentsToken) # -1) =>
        LET i == FirstOccurrence(file.data, EndCommentsToken)
            out == result.bytes
        IN  /\ outcome = "epsInjected"
            /\ insertIndex = i + 13
            /\ Len(piece) > 0
            /\ piece = TextEncode(EpsPacketStr(xmp))
            /\ Slice(out, 0, i + 13) = Slice(file.data, 0, i + 13)
            /\ Slice(out, i + 13, i + 13 + Len(piece)) = piece
            /\ SliceFrom(out, i + 13 + Len(piece)) = SliceFrom(file.data, i + 13)

\* a file with two %%EndComments lines has had the block inserted after the first
EpsEndCommentsWitness ==
    /\ outcome = "epsInjected"
    /\ file.data = EpsTwoEndComments
    /\ insertIndex = 13
    /\ Len(result.bytes) = Len(file.data) + Len(piece)

\* the insertion offset C8 describes for a file without %%EndComments
EpsFallbackOffset(data) ==
    LET n == Len(data)
        reach == IF n < 1024 THEN n ELSE 1024
        headers == {i \in 0..(reach - Len(PsAdobeToken)) : MatchAt(data, PsAdobeToken, i)}
        h == CHOOSE i \in headers : \A j \in headers : i <= j
        windowEnd == IF n < h + 256 THEN n ELSE h + 256
        terminators == {k \in h..(windowEnd - 1) : At(data, k) \in {10, 13}}
        t == CHOOSE k \in terminators : \A j \in terminators : k <= j
    IN  IF headers = {} THEN 0
        ELSE IF terminators = {} THEN h + 10
        ELSE IF At(data, t) = 13 /\ t + 1 < n /\ At(data, t + 1) = 10 THEN t + 2
        ELSE t + 1

\* C8: when a readable EPS file has no %%EndComments, the block is inserted
\* right after the first line terminator (a lone CR, a lone LF, or both bytes
\* of a CR LF pair) found in the 256 bytes starting at the header offset, if
\* %!PS-Adobe lies within the first 1024 bytes; at header offset + 10 if that
\* window holds no terminator; and at offset 0 if the header is not found.
EpsFallbackInsertion ==
    (pc = "done" /\ route = "eps" /\ file.readable
         /\ FirstOccurrence(file.data, EndCommentsToken) = -1) =>
        LET at == EpsFallbackOffset(file.data)
            out == result.bytes
        IN  /\ outcome = "epsInjected"
            /\ insertIndex = at
            /\ Len(piece) > 0
            /\ out = Slice(file.data, 0, at) \o piece \o SliceFrom(file.data, at)

\* a header line ending in CR LF has had the block inserted after both bytes
EpsFallbackWitness ==
    /\ outcome = "epsInjected"
    /\ file.data = EpsHeaderCrLf
    /\ insertIndex = 16
    /\ Slice(result.bytes, 0, 16) = Slice(EpsHeaderCrLf, 0, 16)
    /\ At(result.bytes, 14) = 13
    /\ At(result.bytes, 15) = 10

\* C9: the video injector returns the n input bytes unchanged followed by one
\* box of 24 + x bytes, x being the UTF-8 length of the XMP packet: a 4-byte
\* big-endian size 24 + x, the type 'uuid', the 16-byte Adobe XMP UUID, then
\* the packet; the output is n + 24 + x bytes long.
VideoAppendsUuidBox ==
    (pc = "done" /\ route = "video") =>
        LET out == result.bytes
            n == Len(file.data)
            packet == TextEncode(xmp)
            x == Len(packet)
        IN  /\ outcome = "videoBoxed"
            /\ result.status = "resolved"
            /\ x > 0
            /\ Len(out) = n + 24 + x
            /\ Slice(out, 0, n) = file.data
            /\ Be32(Slice(out, n, n + 4)) = 24 + x
            /\ Slice(out, n + 4, n + 8) = <<117, 117, 105, 100>>
            /\ Slice(out, n + 8, n + 24)
                   = <<190, 122, 207, 203, 151, 169, 66, 232, 156, 113, 153, 148, 145, 227, 175, 172>>
            /\ SliceFrom(out, n + 24) = packet

\* an 8-byte video file has come back with the box behind its 8 bytes
VideoBoxWitness ==
    /\ outcome = "videoBoxed"
    /\ file.data = VideoFtyp
    /\ metadata = MetaPlain
    /\ Slice(result.bytes, 0, 8) = VideoFtyp
    /\ Len(result.bytes) = 8 + Len(piece)

\* XML escaping in one pass: each unit is rewritten on its own
XmlEscapeUnit(c) ==
    IF c = 38 THEN <<38, 97, 109, 112, 59>>
    ELSE IF c = 60 THEN <<38, 108, 116, 59>>
    ELSE IF c = 62 THEN <<38, 103, 116, 59>>
    ELSE <<c>>

RECURSIVE XmlEscape(_)
XmlEscape(s) ==
    IF Len(s) = 0 THEN << >>
    ELSE IF Len(s) = 1 THEN XmlEscapeUnit(s[1])
    ELSE LET h == Len(s) \div 2
         IN  XmlEscape(SubSeq(s, 1, h)) \o XmlEscape(SubSeq(s, h + 1, Len(s)))

\* no raw < or >, and every & starts &amp; or &lt; or &gt;
NoRawMarkup(f) ==
    \A i \in 0..(Len(f) - 1) :
        /\ At(f, i) \notin {60, 62}
        /\ At(f, i) = 38 =>
               \/ MatchAt(f, <<38, 97, 109, 112, 59>>, i)
               \/ MatchAt(f, <<38, 108, 116, 59>>, i)
               \/ MatchAt(f, <<38, 103, 116, 59>>, i)

\* the MIME type the entered injector passes to generateXmpPacket
PacketMime ==
    CASE route = "jpeg" -> MimeJpeg
      [] route = "png" -> MimePng
      [] route = "svg" -> MimeSvg
      [] route = "eps" -> MimePostscript
      [] OTHER -> OrElse(file.type, MimeMp4)

\* C10: in every packet generateXmpPacket has produced, the title (in
\* dc:title and in photoshop:Headline), the description and each keyword (in
\* input order, duplicates kept) stand in their places with & written as
\* &amp;, < as &lt;, > as &gt; and every other character as it was (one pass
\* over the input, so no entity is escaped twice), and the embedded field
\* text holds no raw < or > and no & that does not start one of the three
\* entities.
XmpFieldsAreEscapedOnce ==
    xmp # << >> =>
        LET title == XmlEscape(metadata.title)
            description == XmlEscape(metadata.description)
            n == Len(metadata.keywords)
            keyword == [i \in 1..n |-> XmlEscape(metadata.keywords[i])]
            items == Join([i \in 1..n |-> RdfLiOpen \o keyword[i] \o RdfLiClose], KeywordJoin)
        IN  /\ xmp = XmpHead \o PacketMime \o XmpTitleOpen \o title
                         \o XmpDescriptionOpen \o description
                         \o XmpSubjectOpen \o items
                         \o XmpHeadlineOpen \o title \o XmpTail
            /\ NoRawMarkup(title)
            /\ NoRawMarkup(description)
            /\ \A i \in 1..n : NoRawMarkup(keyword[i])

\* a packet has been generated from the title "a&<", the description ">" and
\* the keywords "&", "a", and holds "a&amp;&lt;" twice
XmpEscapeWitness ==
    /\ outcome = "epsInjected"
    /\ metadata = MetaEscapes
    /\ Includes(xmp, <<97, 38, 97, 109, 112, 59, 38, 108, 116, 59, 60, 47>>)
    /\ Includes(xmp, <<62, 38, 103, 116, 59, 60, 47>>)

\* from offset head on, every segment starts with FF and its declared length
\* leads to the next marker, up to the start of scan (FF DA)
RECURSIVE JpegSegmentsOk(_, _)
JpegSegmentsOk(bytes, head) ==
    IF head + 2 > Len(bytes) \/ At(bytes, head) # 255 THEN FALSE
    ELSE IF At(bytes, head + 1) = 218 THEN TRUE
    ELSE /\ head + 4 <= Len(bytes)
         /\ Be16(At(bytes, head + 2), At(bytes, head + 3)) >= 2
         /\ JpegSegmentsOk(bytes, head + 2 + Be16(At(bytes, head + 2), At(bytes, head + 3)))

\* from offset at on, the bytes are whole chunks (length, type, data, CRC of
\* type + data) up to the last byte
RECURSIVE PngChunksOk(_, _)
PngChunksOk(bytes, at) ==
    IF at = Len(bytes) THEN TRUE
    ELSE /\ at + 12 <= Len(bytes)
         /\ At(bytes, at) < 128
         /\ LET d == Be32(Slice(bytes, at, at + 4))
            IN  /\ at + 12 + d <= Len(bytes)
                /\ Slice(bytes, at + 8 + d, at + 12 + d)
                       = StdCrc32(Slice(bytes, at + 4, at + 8 + d))
                /\ PngChunksOk(bytes, at + 12 + d)

\* from offset at on, the bytes are whole boxes (4-byte size, 4-byte type,
\* payload) up to the last byte
RECURSIVE BoxesOk(_, _)
BoxesOk(bytes, at) ==
    IF at = Len(bytes) THEN TRUE
    ELSE /\ at + 8 <= Len(bytes)
         /\ At(bytes, at) < 128
         /\ LET size == Be32(Slice(bytes, at, at + 4))
            IN  /\ size >= 8
                /\ at + size <= Len(bytes)
                /\ BoxesOk(bytes, at + size)

\* the number of offsets at which a pattern occurs
Occurrences(s, p) == Cardinality({i \in 0..(Len(s) - Len(p)) : MatchAt(s, p, i)})

\* C11 as stated: when an injector has run a second time, on the Blob it
\* returned for a valid file, the result is again a file of that format that
\* parses: a JPEG starts with FF D8 and every segment's declared length leads
\* to the next marker; a PNG is the signature followed by whole chunks with
\* consistent lengths and CRCs; an SVG has exactly one <metadata> element and
\* it holds the new packet; a video is the original file followed by whole
\* boxes that fill the appended bytes exactly.
ReapplyKeepsFormatParsable ==
    (pass = 2 /\ pc = "done") =>
        /\ result.status = "resolved"
        /\ route = "jpeg" =>
               /\ Slice(result.bytes, 0, 2) = <<255, 216>>
               /\ JpegSegmentsOk(result.bytes, 2)
        /\ route = "png" =>
               /\ Slice(result.bytes, 0, 8) = <<137, 80, 78, 71, 13, 10, 26, 10>>
               /\ PngChunksOk(result.bytes, 8)
        /\ route = "svg" =>
               LET text == BlobText(result.bytes)
               IN  /\ Occurrences(text, MetadataOpenTag) = 1
                   /\ Occurrences(text, MetadataCloseTag) = 1
                   /\ Includes(text, MetadataElement(xmp))
        /\ route = "video" =>
               /\ Slice(result.bytes, 0, Len(firstInput)) = firstInput
               /\ BoxesOk(result.bytes, Len(firstInput))

\* C12: a call of fileToBase64 that entered the video branch always
\* eventually settles: its promise is resolved with the storyboard or
\* rejected with an error, whatever stage fails.
VideoCallAlwaysSettles == (prepPc = "videoLoading") ~> (prepResult.status # "pending")

\* the call took the video branch
IsVideoCall == prepPc # "call" /\ VideoTest(prepFile.type, prepFile.name)

NearFraction(t, d, k) ==
    /\ Less(Times(d, Ratio(k - 1, 100)), t)
    /\ Less(t, Times(d, Ratio(k + 1, 100)))

StrictlyIncreasing(t) == \A k \in 1..(Len(t) - 1) : Less(t[k], t[k + 1])

\* 10 seconds give exactly 1.0, 3.5, 6.0 and 8.5
TenSecondsExact ==
    prepFile.media.duration = FromInt(10) =>
        timePoints = <<FromInt(1), Dyadic(7, 1), FromInt(6), Dyadic(17, 1)>>

\* C14: once the metadata handler has run there are four capture
\* timestamps, 10%, 35%, 60% and 85% of the duration d in that order.  For a
\* finite d > 0 they are strictly increasing and lie between 0 and d; for
\* d = 10 they are exactly 1.0, 3.5, 6.0, 8.5; for d = 0 all four are 0; and
\* for d = Infinity all four are Infinity, no seek is made and the call is
\* rejected.
TimestampsOfFiniteDuration ==
    timePoints # << >> =>
        LET d == prepFile.media.duration
        IN  /\ Len(timePoints) = 4
            /\ TenSecondsExact
            /\ d.kind = "num" =>
                   /\ StrictlyIncreasing(timePoints)
                   /\ Less(Zero, timePoints[1])
                   /\ Less(timePoints[4], d)
                   /\ NearFraction(timePoints[1], d, 10)
                   /\ NearFraction(timePoints[2], d, 35)
                   /\ NearFraction(timePoints[3], d, 60)
                   /\ NearFraction(timePoints[4], d, 85)
            /\ d = Zero => \A k \in 1..4 : timePoints[k] = Zero
            /\ d = Infinity =>
                   /\ \A k \in 1..4 : timePoints[k] = Infinity
                   /\ captures = << >>
                   /\ prepResult.status = "rejected"

\* the timestamps of a 10-second video have been computed
TimestampsWitness ==
    /\ prepFile.media.duration = FromInt(10)
    /\ timePoints = <<FromInt(1), Dyadic(7, 1), FromInt(6), Dyadic(17, 1)>>
    /\ prepPc = "seeking"

\* C14 as stated: for every duration d > 0 the four timestamps are strictly
\* increasing and inside [0, d], and for d = 10 they are 1.0, 3.5, 6.0, 8.5.
TimestampsOfAnyDuration ==
    timePoints # << >> =>
        LET d == prepFile.media.duration
        IN  /\ Len(timePoints) = 4
            /\ TenSecondsExact
            /\ d # Zero =>
                   /\ StrictlyIncreasing(timePoints)
                   /\ ~Less(timePoints[1], Zero)
                   /\ ~Less(d, timePoints[4])

\* the image branch went to smartCompressImage
OnCompressionPath ==
    \/ prepPc = "imgLoading"
    \/ prepOutcome \in {"resized", "fallbackNoContext", "fallbackTooSmall", "fallbackLoadError"}

\* the call took the image branch and the file has been read
IsImageRead ==
    /\ ~VideoTest(prepFile.type, prepFile.name)
    /\ prepPc \in {"imgLoading", "done"}
    /\ prepOutcome # "readError"

\* C15: for an image file that has been read, the compression path is taken
\* exactly when the size exceeds 9 * 1024 * 1024 bytes; a file of that size
\* or less is resolved at once with the text of its own bytes, and no image
\* is decoded and no canvas made for it.
CompressionIffOverNineMegabytes ==
    IsImageRead =>
        /\ OnCompressionPath <=> prepFile.size > 9 * 1024 * 1024
        /\ prepFile.size <= 9 * 1024 * 1024 =>
               /\ prepResult = PrepResolved(OriginalPayload)
               /\ prepOutcome = "original"
               /\ canvas = NoCanvas
               /\ frame = NoFrame

\* a file of 9 MB + 1 byte came out of the resizer as a JPEG
CompressionWitnessOver ==
    /\ IsImageRead
    /\ prepFile.size = 9 * 1024 * 1024 + 1
    /\ prepOutcome = "resized"
    /\ prepResult.payload.kind = "jpeg"

\* C16: once the metadata handler has run, the frame of a video of native
\* size w x h has its longer edge at most 800; it is w x h when neither edge
\* exceeds 800; otherwise the longer edge is 800 and the other edge is
\* floor(other * 800 / longer); and the canvas is twice the frame each way.
FrameKeepsAspectRatio ==
    IsVideoCall /\ timePoints # << >> =>
        LET w == prepFile.media.width
            h == prepFile.media.height
        IN  /\ frame.width <= 800 /\ frame.height <= 800
            /\ w <= 800 /\ h <= 800 => frame = [width |-> w, height |-> h]
            /\ w > 800 /\ w >= h => frame = [width |-> 800, height |-> (h * 800) \div w]
            /\ h > 800 /\ h >= w => frame = [width |-> (w * 800) \div h, height |-> 800]
            /\ canvas.width = 2 * frame.width
            /\ canvas.height = 2 * frame.height

\* C17: on the compression path a failure is fatal: when the image cannot
\* be decoded the call is rejected, and the call resolves only with the text
\* of a re-encoded JPEG.
DecodeFailureIsFatal ==
    IsImageRead /\ prepPc = "done" /\ prepFile.size > 9 * 1024 * 1024 =>
        /\ ~prepFile.media.decodable => prepResult.status = "rejected"
        /\ prepResult.status = "resolved" => prepResult.payload.kind = "jpeg"

\* the format a MIME type names, "" when it names none the dispatcher knows
\* by type
FormatOfType(type) ==
    IF toLowerCase(type) = MimeJpeg THEN "jpeg"
    ELSE IF toLowerCase(type) = MimePng THEN "png"
    ELSE IF toLowerCase(type) = MimeSvg THEN "svg"
    ELSE IF StartsWith(toLowerCase(type), VideoPrefix) THEN "video"
    ELSE ""

\* C18: the MIME type decides before the extension does: once the
\* dispatcher has run on a file whose type names a supported format, the
\* injector entered is the one of that format, whatever the name ends in.
DispatchByMimeTypeFirst ==
    route # "" /\ FormatOfType(file.type) # "" => route = FormatOfType(file.type)

\* C19: when the JPEG handler reaches its splice, the buffer that carries
\* the EXIF data (fileBytes) decides: if it begins with FF D8 the Blob holds
\* its first two bytes, then the whole XMP APP1 segment, then all its bytes
\* from offset 2 on, unchanged and in order, and is as long as the two
\* together; if it does not, the Blob holds fileBytes unchanged.
JpegSpliceAfterSoi ==
    pc = "done" /\ outcome \in {"jpegSpliced", "jpegExifOnly"} =>
        IF Len(fileBytes) >= 2 /\ fileBytes[1] = 255 /\ fileBytes[2] = 216
        THEN /\ outcome = "jpegSpliced"
             /\ result.status = "resolved"
             /\ Len(result.bytes) = Len(fileBytes) + Len(piece)
             /\ SubSeq(result.bytes, 1, 2) = <<255, 216>>
             /\ SubSeq(result.bytes, 3, 2 + Len(piece)) = piece
             /\ SubSeq(result.bytes, 3 + Len(piece), Len(result.bytes))
                    = SubSeq(fileBytes, 3, Len(fileBytes))
        ELSE /\ outcome = "jpegExifOnly"
             /\ result.status = "resolved"
             /\ result.bytes = fileBytes

\* a segment was spliced into a JPEG that has bytes after its SOI marker
JpegSpliceWitness ==
    /\ pc = "done"
    /\ outcome = "jpegSpliced"
    /\ Len(piece) > 4
    /\ Len(fileBytes) > 4
    /\ pass = 1

\* C20: when the PNG handler has run on a file that could be read, the
\* result is the input file itself, bytes unchanged, exactly when the input
\* has fewer than two bytes or its first two bytes are not 89 50, and a chunk
\* is built only for an input that begins with 89 50.
PngPassThroughUnlessSignature ==
    pc = "done" /\ route = "png" /\ outcome # "readError" =>
        LET bothMatch == Len(file.data) >= 2 /\ file.data[1] = 137 /\ file.data[2] = 80
        IN  /\ ~bothMatch =>
                /\ outcome = "pngNotPng"
                /\ result.status = "resolved"
                /\ result.isInput
                /\ result.bytes = file.data
                /\ piece = << >>
            /\ bothMatch => outcome \in {"pngSpliced", "pngThrew"}
            /\ piece # << >> => bothMatch

\* a file whose first byte is 89 and whose second is not 50 came back as it was
PngPassThroughWitness ==
    /\ pc = "done"
    /\ route = "png"
    /\ outcome = "pngNotPng"
    /\ Len(file.data) >= 2
    /\ file.data[1] = 137
    /\ file.data[2] # 80

\* an end tag of the svg element starts at offset i of the text: "</svg",
\* optional white space, ">"
SvgEndTagAt(text, i) ==
    /\ MatchAt(text, SvgCloseStart, i)
    /\ \E j \in (i + 5)..(Len(text) - 1) :
           /\ At(text, j) = 62
           /\ \A k \in (i + 5)..(j - 1) : At(text, k) \in {9, 10, 13, 32}

\* the text is an SVG document as far as its root element goes: the root is
\* closed by an end tag, or is the empty element <svg/>
IsSvgText(text) ==
    \/ text = SvgSelfClosed
    \/ \E i \in 0..(Len(text) - 1) : SvgEndTagAt(text, i)

\* C21: when the SVG injector has run on an SVG text that holds no
\* <metadata> tag, the output holds a <metadata>...</metadata> element, and an end tag
\* of the svg element follows that element.
SvgMetadataBeforeEndTag ==
    (outcome = "svgInjected" /\ IsSvgText(BlobText(file.data))
         /\ ~Includes(BlobText(file.data), MetadataOpenTag)) =>
        LET out == BlobText(result.bytes)
            open == IndexOf(out, MetadataOpenTag, 0)
            close == IndexOf(out, MetadataCloseTag, open + Len(MetadataOpenTag))
        IN  /\ open # -1
            /\ close # -1
            /\ \E s \in (close + Len(MetadataCloseTag))..(Len(out) - 1) : SvgEndTagAt(out, s)

\* C22: when the PNG injector has built its chunk, the chunk's data is the
\* 17 bytes "XML:com.adobe.xmp", then five zero bytes (the keyword's NUL, the
\* compression flag, the compression method, the NUL of the empty language
\* tag, the NUL of the empty translated keyword), then the UTF-8 bytes of the
\* XMP packet; it is 22 + the packet's byte length long, and that number is
\* the chunk's length field.
PngItxtDataLayout ==
    outcome = "pngSpliced" =>
        LET data == Slice(piece, 8, Len(piece) - 4)
            xmpBytes == TextEncode(xmp)
        IN  /\ Slice(data, 0, 17)
                   = <<88, 77, 76, 58, 99, 111, 109, 46, 97, 100, 111, 98, 101, 46, 120, 109, 112>>
            /\ Slice(data, 17, 22) = <<0, 0, 0, 0, 0>>
            /\ SliceFrom(data, 22) = xmpBytes
            /\ Len(data) = 22 + Len(xmpBytes)
            /\ Be32(Slice(piece, 0, 4)) = Len(data)

\* a chunk was built for a packet whose UTF-8 form is longer than its text
PngItxtWitness ==
    /\ outcome = "pngSpliced"
    /\ Len(TextEncode(xmp)) > Len(xmp)
    /\ Len(piece) = 12 + 22 + Len(TextEncode(xmp))


(***************************************************************************)
(* C24                                                                     *)
(***************************************************************************)
\* the bytes a search with this limit may look at: the first min(length, limit)
\* bytes, the whole buffer without a limit
SearchRegion(haystack, limit) ==
    IF limit = 0 \/ Len(haystack) < limit THEN Len(haystack) ELSE limit

\* the indices at which the pattern occurs entirely inside the first n bytes
OccurrencesWithin(haystack, pattern, n) ==
    {i \in 0..(n - Len(pattern)) :
        \A j \in 1..Len(pattern) : haystack[i + j] = pattern[j]}

SamePrefix(a, b, n) ==
    /\ SearchRegion(a, n) = SearchRegion(b, n)
    /\ \A k \in 1..SearchRegion(a, n) : a[k] = b[k]

\* C24: findBinarySequence returns the smallest index at which the pattern occurs
\* entirely inside the first min(length, limit) bytes (inside the whole buffer
\* when no limit is given), or -1 when there is no such index; and two buffers
\* that agree before the limit give the same result.
FindReturnsFirstOccurrenceWithinLimit ==
    findPc = "done" =>
        LET occ == OccurrencesWithin(findHaystack, findPattern,
                                     SearchRegion(findHaystack, findLimit))
        IN  /\ occ = {} => findResult = -1
            /\ occ # {} => findResult \in occ /\ \A i \in occ : findResult <= i
            /\ findLimit # 0 =>
                   \A other \in FindHaystacks :
                       SamePrefix(findHaystack, other, findLimit) =>
                           findBinarySequence(other, findPattern, findLimit) = findResult

\* a search that reported nothing although the pattern occurs in the buffer,
\* starting before the limit and ending beyond it
FindStraddlingWitness ==
    /\ findPc = "done"
    /\ findLimit # 0
    /\ findResult = -1
    /\ \E i \in OccurrencesWithin(findHaystack, findPattern, Len(findHaystack)) :
           i < findLimit /\ i + Len(findPattern) > findLimit

(***************************************************************************)
(* C25, C26, C27                                                           *)
(***************************************************************************)
\* the structure validation of the pool that gave the result: a title, and
\* on the Gemini video path keywords as well
PassesValidation(req, res) ==
    /\ HasTitle(res)
    /\ (res.by = "GEMINI" /\ IsVideoMime(req.mimeType)) => HasKeywords(res)

\* C25: a generate_metadata request is answered with success only with a result
\* that passed the structure validation of its pool; an object that failed it
\* is never sent to the client.
SuccessOnlyWithValidatedResult ==
    \A r \in 1..2 :
        (requests[r].action = "generate_metadata" /\ requests[r].response.status = 200)
            => PassesValidation(requests[r], requests[r].response.result)

\* the first request is the only one, and it has been answered
AnsweredInIsolation ==
    /\ requests # << >>
    /\ requests[2].pc = "absent"
    /\ requests[1].pc = "done"

\* C26: for a request handled in isolation, the credits after a failed request
\* equal the credits before it (a charge is added back before the error
\* response), the credits after a successful request equal the credits before
\* it minus the cost, and a request with credits below the cost is answered 402
\* with no deduction.
FailedRequestIsRefunded ==
    AnsweredInIsolation =>
        LET req == requests[1]
            cost == CostOf(req.action, req.mimeType)
        IN  /\ req.response.status = 200 => credits = initialCredits - cost
            /\ req.response.status # 200 => credits = initialCredits
            /\ (req.authorized /\ initialCredits < cost) => req.response.status = 402

\* the sum of the costs of the requests that were answered with success
CostOfSucceeded(r) ==
    IF requests[r].response.status = 200 THEN requests[r].cost ELSE 0

\* C27: when two billable requests of one user are served concurrently and no
\* database call fails, the balance is never negative and, once both are
\* answered, it is the initial balance minus the costs of the requests that
\* succeeded.
ConcurrentRequestsKeepTheBalance ==
    requests # << >> =>
        /\ credits >= 0
        /\ ( /\ \A r \in 1..2 : requests[r].pc = "done" /\ requests[r].cost > 0
                                /\ ~requests[r].fault
           ) => credits = initialCredits - (CostOfSucceeded(1) + CostOfSucceeded(2))

(***************************************************************************)
(* C28                                                                     *)
(***************************************************************************)
\* C28: invokeWithRetry invokes the edge function at most 3 times; an attempt
\* after the first starts only after the attempt before it has failed and at
\* least one second has passed since; the call returns the data of the first
\* attempt that succeeded, which is then the last attempt made; and it throws
\* only after the third attempt has failed, the error of that attempt, at the
\* moment that attempt failed.
RetryAtMostThreeSpacedAttempts ==
    LET n == Len(invocations)
    IN  /\ n <= 3
        /\ \A k \in 2..n :
               /\ ~Succeeded(invocations[k - 1].outcome)
               /\ invocations[k - 1].end >= 0
               /\ invocations[k].start >= invocations[k - 1].end + 1000
        /\ retryPc = "returned" =>
               /\ Succeeded(invocations[n].outcome)
               /\ retryResult.outcome = invocations[n].outcome
        /\ retryPc = "thrown" =>
               /\ n = 3
               /\ ~Succeeded(invocations[3].outcome)
               /\ retryResult.outcome = invocations[3].outcome
               /\ retryResult.at = invocations[3].end

\* the third attempt failed with another error than the second and the call
\* threw
RetryThirdFailureWitness ==
    /\ retryPc = "thrown"
    /\ Len(invocations) = 3
    /\ invocations[3].outcome # invocations[2].outcome

(***************************************************************************)
(* The App component                                                       *)
(***************************************************************************)
\* the processImage calls that have started and not yet finished
RECURSIVE CallsAmong(_)
CallsAmong(S) ==
    IF S = {} THEN 0
    ELSE CHOOSE total \in {CallsOf(f) + CallsAmong(S \ {f}) : f \in {CHOOSE x \in S : TRUE}} : TRUE

CallsInFlight == CallsAmong(FileIds)

\* the state once every update that waits has been rendered
Waiting == ApplyAll(baseState, updateQueue)

\* C23: at every moment activeCount is at most MAX_CONCURRENCY and at most
\* MAX_CONCURRENCY processImage calls are in flight.
AtMostMaxConcurrencyInProcess ==
    /\ activeCount <= MAX_CONCURRENCY
    /\ Waiting.activeCount <= MAX_CONCURRENCY
    /\ CallsInFlight <= MAX_CONCURRENCY

\* every call of processImage has settled and every update has been rendered
Settled(f) ==
    /\ CallsOf(f) = 0
    /\ updateQueue = << >>
    /\ ~effectPending

\* C29: a file that processImage set to PROCESSING and that is still in the
\* list has status SUCCESS or ERROR once its calls have settled, whatever
\* they resolved or rejected with.  Stated on the settled state: no file is
\* PROCESSING when none of its calls is in flight and no update waits; no
\* action changes the status of a file from such a state, so a file found
\* there stays PROCESSING forever.
SettledFileIsNotProcessing ==
    \A f \in Cards : Settled(f) => files[f] # "PROCESSING"

\* C30: activeCount, with the updates that wait counted in, is the number
\* of calls in flight and is never negative; the queue processor removes
\* from the queue only the id it passed to processImage; and the queue
\* never holds an id twice.
CounterAndQueueAreExact ==
    /\ Waiting.activeCount = CallsInFlight
    /\ activeCount >= 0
    /\ baseState.dropped = {}
    /\ \A j, k \in 1..Len(processQueue) : processQueue[j] = processQueue[k] => j = k
====
